---------------------------- MODULE Spec2Model ----------------------------
(***************************************************************************)
(* hydrogen-bundles SDK: the cart-line builder and tag codec               *)
(* (sdk/buildCartMutation), selection validation (utils/validation), the   *)
(* add-to-cart flow, the local price calculator (sdk/calculatePrice) and   *)
(* the resolver's direct normalisation (sdk/resolveBundle).                *)
(*                                                                         *)
(* Optional values (TypeScript `x?: T`) are sequences of length 0 or 1:    *)
(* Undefined is <<>>, a present value v is <<v>>.                          *)
(* A Money amount, a decimal string with two fraction digits, is the       *)
(* integer number of cents it spells.  A JavaScript number is an exact     *)
(* integer count of 1/10000 (a hundredth of a cent for money, a            *)
(* ten-thousandth of a percent for percentages): parseFloat multiplies a   *)
(* Money amount by 100 and toFixed(2) rounds back to cents.                *)
(***************************************************************************)
EXTENDS Integers, Sequences, FiniteSets, TLC

VARIABLES
    definition,   \* the BundleDefinition the calls are made with
    config,       \* the BundleBridgeConfig
    input,        \* the argument of the last call
    lines,        \* completion of the last buildBundleCartLines call
    groups,       \* completion of the last groupCartLinesByBundle call
    validation,   \* completion of the last validateBundleSelection call
    pc,           \* position of the addBundleToCart call
    requests,     \* network requests issued by the addBundleToCart call
    validated,    \* whether the addBundleToCart call ran validateBundleSelection
    addResult,    \* completion of the addBundleToCart call
    response,     \* mutation payload the addBundleToCart call received
    flags,        \* completion of the isBundleLine calls, one per cart line
    invPc,        \* position of the checkInventoryFromStorefrontApi call
    checks,       \* variantsToCheck of the inventory call
    data,         \* data.data?.nodes the inventory call received
    inventory,    \* completion of the inventory call
    resPc,        \* position of the resolveBundle call in progress
    cache,        \* memoryCache: its definitions, inventory and prices maps
    now,          \* Date.now()
    call,         \* arguments of the resolveBundle call in progress
    resolveResult, \* completion of the last resolveBundle call
    product,      \* raw storefront product handed to parseStorefrontResponse
    resolved,     \* completion of the parseStorefrontResponse call
    price,        \* completion of the last calculatePriceFromDefinition call
    hookState,    \* the useState cells of the hook a component has mounted
    started       \* the hook's asynchronous calls in the order they started

sdkVars == <<definition, config, input>>
lineVars == <<lines, groups>>
validationVars == <<validation>>
cartVars == <<pc, requests, validated, addResult, response>>
priceVars == <<product, resolved, price>>
readVars == <<flags>>
inventoryVars == <<invPc, checks, data, inventory>>
resolveVars == <<resPc, cache, now, call, resolveResult>>
hookVars == <<hookState, started>>
vars == <<definition, config, input, lines, groups, validation, pc, requests,
          validated, addResult, response, product, resolved, price, flags,
          invPc, checks, data, inventory, resPc, cache, now, call,
          resolveResult, hookState, started>>

\* no hook is mounted
NoHook ==
    [hook |-> "none", isAdding |-> FALSE, isLoading |-> FALSE, error |-> <<>>,
     data |-> <<>>]

----------------------------------------------------------------------------
(* Optional values and call completions *)

Undefined == <<>>
Some(v) == <<v>>
IsDefined(o) == o # <<>>
Get(o) == o[1]
\* JavaScript truthiness of an optional number: undefined and 0 are falsy
Truthy(n) == IsDefined(n) /\ Get(n) # 0

NotCalled == [completion |-> "none"]
Return(v) == [completion |-> "return", value |-> v]
Throw(m) == [completion |-> "throw", message |-> m]
Returned(c) == c.completion = "return"

\* All sequences over S of length lo..hi
SeqsOf(S, lo, hi) == UNION {[1..n -> S] : n \in lo..hi}

----------------------------------------------------------------------------
(* Number <-> string conversions *)

Digit(d) ==
    CASE d = 0 -> "0" [] d = 1 -> "1" [] d = 2 -> "2" [] d = 3 -> "3"
      [] d = 4 -> "4" [] d = 5 -> "5" [] d = 6 -> "6" [] d = 7 -> "7"
      [] d = 8 -> "8" [] d = 9 -> "9"

RECURSIVE String(_)
String(n) ==
    IF n < 0 THEN "-" \o String(0 - n)
    ELSE IF n < 10 THEN Digit(n)
    ELSE String(n \div 10) \o Digit(n % 10)

----------------------------------------------------------------------------
(* Constants of utils/constants *)

BUNDLE_ATTRIBUTES ==
    [bundleParent |-> "_bundle_parent",
     bundleComponentOf |-> "_bundle_component_of",
     bundleProductId |-> "_bundle_product_id",
     componentIndex |-> "_bundle_component_index",
     componentProductId |-> "_bundle_component_product_id",
     totalComponents |-> "_bundle_total_components"]

----------------------------------------------------------------------------
(* sdk/buildCartMutation: line construction *)

buildBundleAttributes_SwappedCounts(bundleId, componentIndex, totalComponents, componentProductId) ==
    << [key |-> BUNDLE_ATTRIBUTES.bundleParent, value |-> "true"],
       [key |-> BUNDLE_ATTRIBUTES.bundleProductId, value |-> bundleId],
       [key |-> BUNDLE_ATTRIBUTES.componentIndex, value |-> String(totalComponents)],
       [key |-> BUNDLE_ATTRIBUTES.totalComponents, value |-> String(componentIndex)],
       [key |-> BUNDLE_ATTRIBUTES.componentProductId, value |-> componentProductId] >>

buildBundleAttributes(bundleId, componentIndex, totalComponents, componentProductId) ==
    << [key |-> BUNDLE_ATTRIBUTES.bundleParent, value |-> "true"],
       [key |-> BUNDLE_ATTRIBUTES.bundleProductId, value |-> bundleId],
       [key |-> BUNDLE_ATTRIBUTES.componentIndex, value |-> String(componentIndex)],
       [key |-> BUNDLE_ATTRIBUTES.totalComponents, value |-> String(totalComponents)],
       [key |-> BUNDLE_ATTRIBUTES.componentProductId, value |-> componentProductId] >>

\* input.selectedComponents && input.selectedComponents.length > 0
UsesSelections(selectedComponents) ==
    IsDefined(selectedComponents) /\ Len(Get(selectedComponents)) > 0

\* c.defaultVariantId ?? c.variants[0]!.id reads .id of undefined
DefaultVariantThrows(c) ==
    ~IsDefined(c.defaultVariantId) /\ Len(c.variants) = 0

DefaultVariantId(c) ==
    IF IsDefined(c.defaultVariantId) THEN Get(c.defaultVariantId) ELSE c.variants[1].id

componentsToAdd(def, in) ==
    IF UsesSelections(in.selectedComponents)
    THEN LET s == Get(in.selectedComponents) IN
         [i \in 1..Len(s) |->
            [productId |-> s[i].productId, variantId |-> s[i].variantId,
             quantity |-> s[i].quantity]]
    ELSE [i \in 1..Len(def.components) |->
            LET c == def.components[i] IN
            [productId |-> c.productId, variantId |-> DefaultVariantId(c),
             quantity |-> c.quantity]]

\* input.quantity || 1
BundleQuantity_OrOne(in) == IF Truthy(in.quantity) THEN Get(in.quantity) ELSE 1

\* input.quantity ?? 1
BundleQuantity(in) == IF IsDefined(in.quantity) THEN Get(in.quantity) ELSE 1

CustomAttributes(in) ==
    IF IsDefined(in.customAttributes) THEN Get(in.customAttributes) ELSE <<>>

buildBundleCartLines(def, in) ==
    IF ~UsesSelections(in.selectedComponents)
       /\ \E i \in 1..Len(def.components) : DefaultVariantThrows(def.components[i])
    THEN Throw("TypeError")
    ELSE LET toAdd == componentsToAdd(def, in)
             totalComponents == Len(toAdd)
         IN Return([i \in 1..totalComponents |->
                [merchandiseId |-> toAdd[i].variantId,
                 quantity |-> toAdd[i].quantity * BundleQuantity(in),
                 attributes |->
                    buildBundleAttributes(def.id, i - 1, totalComponents,
                                          toAdd[i].productId)
                    \o CustomAttributes(in)]])

----------------------------------------------------------------------------
(* sdk/buildCartMutation: tag decoding *)

\* any attribute with the bundle-parent key
isBundleLine_KeyOnly(line) ==
    \E i \in 1..Len(line.attributes) :
        line.attributes[i].key = BUNDLE_ATTRIBUTES.bundleParent

isBundleLine(line) ==
    \E i \in 1..Len(line.attributes) :
        /\ line.attributes[i].key = BUNDLE_ATTRIBUTES.bundleParent
        /\ line.attributes[i].value = "true"

RECURSIVE BundleInfoFrom(_, _, _)
BundleInfoFrom(attributes, i, attrs) ==
    IF i > Len(attributes) THEN attrs
    ELSE LET attr == attributes[i] IN
         BundleInfoFrom(attributes, i + 1,
            IF attr.key = BUNDLE_ATTRIBUTES.bundleParent
            THEN [attrs EXCEPT !.bundleParent = Some(attr.value)]
            ELSE IF attr.key = BUNDLE_ATTRIBUTES.bundleProductId
            THEN [attrs EXCEPT !.bundleProductId = Some(attr.value)]
            ELSE IF attr.key = BUNDLE_ATTRIBUTES.componentIndex
            THEN [attrs EXCEPT !.bundleComponentIndex = Some(attr.value)]
            ELSE attrs)

getBundleInfoFromLine(line) ==
    BundleInfoFrom(line.attributes, 1,
        [bundleParent |-> Undefined, bundleProductId |-> Undefined,
         bundleComponentIndex |-> Undefined])

\* groups.has(bundleId) never finds the group
GroupIndex_AlwaysNew(gs, bundleId) == 0

\* index of the group keyed bundleId in the Map (insertion order), 0 if none
GroupIndex(gs, bundleId) ==
    IF \E k \in 1..Len(gs) : gs[k].bundleProductId = bundleId
    THEN CHOOSE k \in 1..Len(gs) : gs[k].bundleProductId = bundleId
    ELSE 0

RECURSIVE GroupFrom(_, _, _)
GroupFrom(ls, i, gs) ==
    IF i > Len(ls) THEN gs
    ELSE LET line == ls[i]
             bundleId == getBundleInfoFromLine(line).bundleProductId
         IN IF ~isBundleLine(line) THEN GroupFrom(ls, i + 1, gs)
            ELSE IF ~IsDefined(bundleId) \/ Get(bundleId) = "" THEN GroupFrom(ls, i + 1, gs)
            ELSE LET k == GroupIndex(gs, Get(bundleId))
                     withGroup == IF k = 0
                                  THEN Append(gs, [bundleProductId |-> Get(bundleId),
                                                   lines |-> <<>>])
                                  ELSE gs
                     j == IF k = 0 THEN Len(withGroup) ELSE k
                 IN GroupFrom(ls, i + 1,
                        [withGroup EXCEPT ![j].lines = Append(@, line)])

groupCartLinesByBundle(ls) == GroupFrom(ls, 1, <<>>)

----------------------------------------------------------------------------
(* utils/validation: validateBundleSelection *)

Valid == [valid |-> TRUE, error |-> Undefined]
Invalid(message) == [valid |-> FALSE, error |-> Some(message)]

RECURSIVE SumQuantities(_, _)
SumQuantities(selections, i) ==
    IF i > Len(selections) THEN 0
    ELSE selections[i].quantity + SumQuantities(selections, i + 1)

totalSelections(selections) == SumQuantities(selections, 1)

\* Array.prototype.find: index of the first match, 0 when there is none
FindComponent(def, productId) ==
    IF \E i \in 1..Len(def.components) : def.components[i].productId = productId
    THEN CHOOSE i \in 1..Len(def.components) :
            /\ def.components[i].productId = productId
            /\ \A j \in 1..(i - 1) : def.components[j].productId # productId
    ELSE 0

FindVariant(component, variantId) ==
    IF \E i \in 1..Len(component.variants) : component.variants[i].id = variantId
    THEN CHOOSE i \in 1..Len(component.variants) :
            /\ component.variants[i].id = variantId
            /\ \A j \in 1..(i - 1) : component.variants[j].id # variantId
    ELSE 0

BelowMinSelections(def, total) ==
    Truthy(def.minSelections) /\ total < Get(def.minSelections)

AboveMaxSelections(def, total) ==
    Truthy(def.maxSelections) /\ total > Get(def.maxSelections)

MinSelectionsError(def) ==
    "Please select at least " \o String(Get(def.minSelections)) \o " items."

MaxSelectionsError_NamesMin(def) ==
    "You can select at most "
        \o (IF IsDefined(def.minSelections) THEN String(Get(def.minSelections))
            ELSE "undefined")
        \o " items."

MaxSelectionsError(def) ==
    "You can select at most " \o String(Get(def.maxSelections)) \o " items."

BelowMinQuantity_OffByOne(component, selection) ==
    /\ component.allowQuantitySelection
    /\ Truthy(component.minQuantity)
    /\ selection.quantity <= Get(component.minQuantity)

BelowMinQuantity(component, selection) ==
    /\ component.allowQuantitySelection
    /\ Truthy(component.minQuantity)
    /\ selection.quantity < Get(component.minQuantity)

AboveMaxQuantity(component, selection) ==
    /\ component.allowQuantitySelection
    /\ Truthy(component.maxQuantity)
    /\ selection.quantity > Get(component.maxQuantity)

RECURSIVE ValidateEach(_, _, _)
ValidateEach(def, selections, i) ==
    IF i > Len(selections) THEN Valid
    ELSE LET selection == selections[i]
             k == FindComponent(def, selection.productId)
         IN IF k = 0
            THEN Invalid("Invalid product selection: " \o selection.productId)
            ELSE LET component == def.components[k] IN
                 IF FindVariant(component, selection.variantId) = 0
                 THEN Invalid("Invalid variant selection for " \o component.productTitle)
                 ELSE IF BelowMinQuantity(component, selection)
                 THEN Invalid("Minimum quantity for " \o component.productTitle
                              \o " is " \o String(Get(component.minQuantity)))
                 ELSE IF AboveMaxQuantity(component, selection)
                 THEN Invalid("Maximum quantity for " \o component.productTitle
                              \o " is " \o String(Get(component.maxQuantity)))
                 ELSE ValidateEach(def, selections, i + 1)

\* the selections are checked before the totals
validateBundleSelection_EachFirst(def, selections) ==
    IF def.bundleType = "fixed" THEN Valid
    ELSE LET total == totalSelections(selections)
             each == ValidateEach(def, selections, 1)
         IN IF ~each.valid THEN each
            ELSE IF BelowMinSelections(def, total) THEN Invalid(MinSelectionsError(def))
            ELSE IF AboveMaxSelections(def, total) THEN Invalid(MaxSelectionsError(def))
            ELSE Valid

validateBundleSelection_ChecksFixed(def, selections) ==
    LET total == totalSelections(selections) IN
    IF BelowMinSelections(def, total) THEN Invalid(MinSelectionsError(def))
    ELSE IF AboveMaxSelections(def, total) THEN Invalid(MaxSelectionsError(def))
    ELSE ValidateEach(def, selections, 1)

validateBundleSelection(def, selections) ==
    IF def.bundleType = "fixed" THEN Valid
    ELSE LET total == totalSelections(selections) IN
         IF BelowMinSelections(def, total) THEN Invalid(MinSelectionsError(def))
         ELSE IF AboveMaxSelections(def, total) THEN Invalid(MaxSelectionsError(def))
         ELSE ValidateEach(def, selections, 1)

----------------------------------------------------------------------------
(* sdk/buildCartMutation: addBundleToCart and executeCartMutation *)

\* A string that is parsed is the sequence of its characters.
DigitValue(ch) ==
    CASE ch = "0" -> 0 [] ch = "1" -> 1 [] ch = "2" -> 2 [] ch = "3" -> 3
      [] ch = "4" -> 4 [] ch = "5" -> 5 [] ch = "6" -> 6 [] ch = "7" -> 7
      [] ch = "8" -> 8 [] ch = "9" -> 9 [] OTHER -> -1

NaN == Undefined

RECURSIVE SkipWhitespace(_)
SkipWhitespace(chars) ==
    IF chars # <<>> /\ Head(chars) = " " THEN SkipWhitespace(Tail(chars)) ELSE chars

RECURSIVE ParseDigits(_, _, _)
ParseDigits(chars, seen, acc) ==
    IF chars # <<>> /\ DigitValue(Head(chars)) >= 0
    THEN ParseDigits(Tail(chars), TRUE, acc * 10 + DigitValue(Head(chars)))
    ELSE IF seen THEN Some(acc) ELSE NaN

\* parseInt(s, 10); parseInt(undefined, 10) is NaN
parseInt(s) ==
    IF ~IsDefined(s) THEN NaN
    ELSE LET chars == SkipWhitespace(Get(s)) IN
         IF chars # <<>> /\ Head(chars) = "-"
         THEN LET n == ParseDigits(Tail(chars), FALSE, 0) IN
              IF IsDefined(n) THEN Some(0 - Get(n)) ELSE NaN
         ELSE IF chars # <<>> /\ Head(chars) = "+"
         THEN ParseDigits(Tail(chars), FALSE, 0)
         ELSE ParseDigits(chars, FALSE, 0)

\* firstError.field[0]
SecondSegment_First(field) == IF Len(field) >= 1 THEN Some(field[1]) ELSE Undefined

\* firstError.field[1]
SecondSegment(field) == IF Len(field) >= 2 THEN Some(field[2]) ELSE Undefined

Success(cart) ==
    [success |-> TRUE, cart |-> cart, error |-> Undefined,
     failedComponent |-> Undefined]
Failure(message, failedComponent) ==
    [success |-> FALSE, cart |-> Undefined, error |-> Some(message),
     failedComponent |-> failedComponent]

RunsValidation_Hyphenated(def) == def.bundleType = "mix-and-match"

\* definition.bundleType === 'mix_and_match'
RunsValidation(def) == def.bundleType = "mix_and_match"

\* input.selectedComponents ?? []
SelectionsToValidate(in) ==
    IF IsDefined(in.selectedComponents) THEN Get(in.selectedComponents) ELSE <<>>

\* validation.error ?? 'Invalid bundle selection'
ValidationFailure(v) ==
    Failure(IF IsDefined(v.error) THEN Get(v.error) ELSE "Invalid bundle selection",
            Undefined)

\* only an absent token counts as missing
TokenMissing_OnlyUndefined(cfg) ==
    ~IsDefined(cfg.storefrontAccessToken)

\* !config.storefrontAccessToken
TokenMissing(cfg) ==
    ~IsDefined(cfg.storefrontAccessToken) \/ Get(cfg.storefrontAccessToken) = ""

\* the component a user error is attributed to
FailedComponent(ls, firstError) ==
    IF IsDefined(firstError.field) /\ Len(Get(firstError.field)) > 0
    THEN LET lineIndex == parseInt(SecondSegment(Get(firstError.field))) IN
         IF IsDefined(lineIndex) /\ Get(lineIndex) >= 0 /\ Get(lineIndex) < Len(ls)
         THEN LET line == ls[Get(lineIndex) + 1]
                  componentProductId ==
                      IF \E i \in 1..Len(line.attributes) :
                            line.attributes[i].key = BUNDLE_ATTRIBUTES.componentProductId
                      THEN LET first == CHOOSE i \in 1..Len(line.attributes) :
                                /\ line.attributes[i].key
                                        = BUNDLE_ATTRIBUTES.componentProductId
                                /\ \A j \in 1..(i - 1) :
                                        line.attributes[j].key
                                            # BUNDLE_ATTRIBUTES.componentProductId
                           IN Some(line.attributes[first].value)
                      ELSE Undefined
              IN IF IsDefined(componentProductId) /\ Get(componentProductId) # ""
                 THEN Some([productId |-> Get(componentProductId),
                            variantId |-> line.merchandiseId,
                            reason |-> firstError.message])
                 ELSE Undefined
         ELSE Undefined
    ELSE Undefined

\* what addBundleToCart makes of the mutation payload executeCartMutation returns
HandlePayload(ls, payload) ==
    IF IsDefined(payload) /\ IsDefined(Get(payload).userErrors)
       /\ Len(Get(Get(payload).userErrors)) > 0
    THEN LET firstError == Get(Get(payload).userErrors)[1] IN
         Failure(firstError.message, FailedComponent(ls, firstError))
    ELSE Success(IF IsDefined(payload) THEN Get(payload).cart ELSE Undefined)

----------------------------------------------------------------------------
(* Data shapes of types.ts, and the bounded inputs *)

MaxComponents == 2     \* components per definition
MaxSelected == 2       \* entries per selection list
Quantities == {1, 2}   \* per-component and per-selection quantities

BundleId == "gid://shopify/Product/100"
Products == {"p1", "p2"}
UnknownProduct == "p999"
UnknownVariant == "v999"

ProductTitle(p) == IF p = "p1" THEN "Product 1" ELSE "Product 2"

MoneyIn(cents, currencyCode) == [amount |-> cents, currencyCode |-> currencyCode]
Money(cents) == MoneyIn(cents, "USD")
Variant(id, cents) == [id |-> id, price |-> Money(cents)]

Component(productId, variants, defaultVariantId, quantity, allow, minQ, maxQ) ==
    [productId |-> productId, productTitle |-> ProductTitle(productId),
     variants |-> variants, defaultVariantId |-> defaultVariantId,
     quantity |-> quantity, allowQuantitySelection |-> allow,
     minQuantity |-> minQ, maxQuantity |-> maxQ]

Pricing(discountType, discountValue, bundlePrice) ==
    [discountType |-> discountType, discountValue |-> discountValue,
     currencyCode |-> Undefined, originalPrice |-> Undefined,
     bundlePrice |-> bundlePrice, savings |-> Undefined,
     savingsPercentage |-> Undefined]

Definition(bundleType, components, pricing, minSelections, maxSelections) ==
    [id |-> BundleId, bundleType |-> bundleType, components |-> components,
     pricing |-> pricing, minSelections |-> minSelections,
     maxSelections |-> maxSelections]

Selection(productId, variantId, quantity) ==
    [productId |-> productId, variantId |-> variantId, quantity |-> quantity]

AddBundleInput(selectedComponents, quantity, cartId, customAttributes) ==
    [selectedComponents |-> selectedComponents, quantity |-> quantity,
     cartId |-> cartId, customAttributes |-> customAttributes]

NoPricing == Pricing("percentage", Some(10), Undefined)
NoInput == AddBundleInput(Undefined, Undefined, Undefined, Undefined)
NoConfig == [storefrontAccessToken |-> Undefined]
NoProduct == [variants |-> <<>>]
NoDefinition == Definition("fixed", <<>>, NoPricing, Undefined, Undefined)

\* no isBundleLine, inventory or resolveBundle call is made
NoCall == [n |-> 0, bundleId |-> "", skipCache |-> FALSE, found |-> Undefined]
OtherCallsIdle ==
    /\ flags = NotCalled
    /\ invPc = "off" /\ checks = <<>> /\ data = Undefined /\ inventory = NotCalled
    /\ resPc = "off" /\ cache = <<>> /\ now = 0 /\ call = NoCall
    /\ resolveResult = NotCalled

\* variants with defaultVariantId: one variant and no default, two variants
\* with the second as default, no variant at all
VariantShapes ==
    { [variants |-> <<Variant("v1", 1000)>>, defaultVariantId |-> Undefined],
      [variants |-> <<Variant("v1", 1000), Variant("v2", 1500)>>,
       defaultVariantId |-> Some("v2")],
      [variants |-> <<>>, defaultVariantId |-> Undefined] }

LineComponents ==
    { Component("p1", s.variants, s.defaultVariantId, q, FALSE, Undefined, Undefined) :
        s \in VariantShapes, q \in Quantities }
    \cup { Component("p2", <<Variant("v3", 500)>>, Undefined, 1, FALSE,
                     Undefined, Undefined) }

LineDefinitions ==
    { Definition("fixed", cs, NoPricing, Undefined, Undefined) :
        cs \in SeqsOf(LineComponents, 1, MaxComponents) }

LineSelections ==
    { Selection("p1", "v1", q) : q \in Quantities }
    \cup { Selection(UnknownProduct, UnknownVariant, 1) }

BundleQuantities == {0, 1, 3}

\* Object.entries(input.customAttributes), in insertion order
CustomAttributeChoices ==
    { Undefined,
      Some(<<[key |-> "gift_note", value |-> "Happy Birthday!"]>>),
      Some(<<[key |-> "_bundle_parent", value |-> "false"]>>),
      Some(<<[key |-> "_bundle_product_id", value |-> "gid://shopify/Product/999"]>>),
      Some(<<[key |-> "_bundle_component_index", value |-> "0"]>>) }

LineInputs ==
    { AddBundleInput(s, q, Undefined, a) :
        s \in {Undefined} \cup {Some(l) : l \in SeqsOf(LineSelections, 0, MaxSelected)},
        q \in {Undefined} \cup {Some(n) : n \in BundleQuantities},
        a \in CustomAttributeChoices }

----------------------------------------------------------------------------
(* Specification of the cart-line builder and the tag codec *)

InitCartLines ==
    /\ hookState = NoHook /\ started = <<>>
    /\ definition \in LineDefinitions
    /\ config = NoConfig
    /\ input \in LineInputs
    /\ lines = NotCalled
    /\ groups = NotCalled
    /\ validation = NotCalled
    /\ pc = "idle" /\ requests = 0 /\ validated = FALSE /\ addResult = NotCalled
    /\ response = NotCalled
    /\ OtherCallsIdle
    /\ product = NoProduct /\ resolved = NotCalled /\ price = NotCalled

BuildBundleCartLines ==
    /\ lines = NotCalled
    /\ lines' = buildBundleCartLines(definition, input)
    /\ UNCHANGED <<hookVars, sdkVars, readVars, inventoryVars, resolveVars, groups, validationVars, cartVars, priceVars>>

\* the cart read back holds the lines as they were submitted
GroupCartLinesByBundle ==
    /\ Returned(lines)
    /\ groups = NotCalled
    /\ groups' = Return(groupCartLinesByBundle(lines.value))
    /\ UNCHANGED <<hookVars, sdkVars, readVars, inventoryVars, resolveVars, lines, validationVars, cartVars, priceVars>>

NextCartLines == BuildBundleCartLines \/ GroupCartLinesByBundle

SpecCartLines == InitCartLines /\ [][NextCartLines]_vars

----------------------------------------------------------------------------
(* Claims about the cart-line builder and the tag codec *)

\* attributes.find((a) => a.key === key)?.value
FindValue(attributes, key) ==
    IF \E i \in 1..Len(attributes) : attributes[i].key = key
    THEN LET first == CHOOSE i \in 1..Len(attributes) :
                        /\ attributes[i].key = key
                        /\ \A j \in 1..(i - 1) : attributes[j].key # key
         IN Some(attributes[first].value)
    ELSE Undefined

\* C1: grouping the lines built for bundle id B gives exactly one group, keyed
\* B, holding all N built lines in build order, whose decoded component
\* indices are 0..N-1 -- for every input, custom attributes included.
C1_RoundTrip ==
    Returned(groups) =>
        LET ls == lines.value
            gs == groups.value
        IN /\ Len(gs) = 1
           /\ gs[1].bundleProductId = definition.id
           /\ gs[1].lines = ls
           /\ \A i \in 1..Len(ls) :
                getBundleInfoFromLine(gs[1].lines[i]).bundleComponentIndex
                    = Some(String(i - 1))

\* C2: the lines of one buildBundleCartLines call all carry the definition's
\* id as bundle-product-id and the same total-component-count N, and their
\* component indices are pairwise distinct and are exactly 0..N-1.
C2_SharedTagsDistinctIndex ==
    Returned(lines) =>
        LET ls == lines.value
            N == Len(ls)
            Tag(i, key) == FindValue(ls[i].attributes, key)
        IN /\ \A i \in 1..N :
                /\ Tag(i, BUNDLE_ATTRIBUTES.bundleProductId) = Some(definition.id)
                /\ Tag(i, BUNDLE_ATTRIBUTES.totalComponents) = Some(String(N))
           /\ \A i, j \in 1..N :
                i # j => Tag(i, BUNDLE_ATTRIBUTES.componentIndex)
                            # Tag(j, BUNDLE_ATTRIBUTES.componentIndex)
           /\ {Tag(i, BUNDLE_ATTRIBUTES.componentIndex) : i \in 1..N}
                = {Some(String(k)) : k \in 0..(N - 1)}

C2_Witness ==
    /\ Returned(lines)
    /\ Len(lines.value) = MaxComponents
    /\ ~UsesSelections(input.selectedComponents)
    /\ IsDefined(input.customAttributes)

\* C3: one line per resolved component; its merchandise id is the component's
\* resolved variant id and its quantity is the component's quantity times the
\* requested bundle quantity (1 when input.quantity is absent).
C3_OneLinePerComponent ==
    Returned(lines) =>
        LET ls == lines.value
            requested == IF input.quantity = Undefined THEN 1 ELSE input.quantity[1]
        IN IF input.selectedComponents # Undefined /\ input.selectedComponents[1] # <<>>
           THEN LET sel == input.selectedComponents[1] IN
                /\ Len(ls) = Len(sel)
                /\ \A i \in 1..Len(sel) :
                    /\ ls[i].merchandiseId = sel[i].variantId
                    /\ ls[i].quantity = sel[i].quantity * requested
           ELSE /\ Len(ls) = Len(definition.components)
                /\ \A i \in 1..Len(definition.components) :
                    LET c == definition.components[i] IN
                    /\ ls[i].merchandiseId =
                        IF c.defaultVariantId # Undefined
                        THEN c.defaultVariantId[1] ELSE c.variants[1].id
                    /\ ls[i].quantity = c.quantity * requested

\* the scenario of the specification: bundle quantity 3, component quantity 2
C3_Witness ==
    /\ Returned(lines)
    /\ input.quantity = Some(3)
    /\ ~UsesSelections(input.selectedComponents)
    /\ definition.components[1].quantity = 2
    /\ lines.value[1].quantity = 6

----------------------------------------------------------------------------
(* Specification of validateBundleSelection *)

MaxSelections == 2     \* largest minSelections / maxSelections of a definition

\* two components may list the same product; quantity bounds of 0 and bounds
\* on a component that does not allow quantity selection are included
ValidationComponents ==
    { Component("p1", <<Variant("v2", 1500)>>, Undefined, 1, FALSE, Some(2), Some(1)),
      Component("p1", <<Variant("v2", 1500)>>, Undefined, 1, TRUE, Some(2), Undefined),
      Component("p2", <<Variant("v1", 1000), Variant("v2", 1500)>>, Undefined, 1,
                TRUE, Undefined, Some(1)),
      Component("p2", <<Variant("v2", 1500)>>, Undefined, 1, TRUE, Some(0), Some(0)) }

SelectionBounds == {Undefined} \cup {Some(n) : n \in 0..MaxSelections}

ValidationDefinitions ==
    { Definition(t, cs, NoPricing, m, M) :
        t \in {"fixed", "mix_and_match"},
        cs \in SeqsOf(ValidationComponents, 1, MaxComponents),
        m \in SelectionBounds, M \in SelectionBounds }

ValidationSelections ==
    { Selection(pv[1], pv[2], q) :
        pv \in {<<"p1", "v2">>, <<"p2", "v2">>}, q \in Quantities }
    \cup { Selection(UnknownProduct, "v2", 1), Selection("p1", UnknownVariant, 1) }

ValidationInputs ==
    { AddBundleInput(Some(l), Undefined, Undefined, Undefined) :
        l \in SeqsOf(ValidationSelections, 0, MaxSelected) }

InitValidation ==
    /\ hookState = NoHook /\ started = <<>>
    /\ definition \in ValidationDefinitions
    /\ config = NoConfig
    /\ input \in ValidationInputs
    /\ lines = NotCalled
    /\ groups = NotCalled
    /\ validation = NotCalled
    /\ pc = "idle" /\ requests = 0 /\ validated = FALSE /\ addResult = NotCalled
    /\ response = NotCalled
    /\ OtherCallsIdle
    /\ product = NoProduct /\ resolved = NotCalled /\ price = NotCalled

ValidateBundleSelection ==
    /\ validation = NotCalled
    /\ validation' = Return(validateBundleSelection(definition, Get(input.selectedComponents)))
    /\ UNCHANGED <<hookVars, sdkVars, readVars, inventoryVars, resolveVars, lineVars, cartVars, priceVars>>

NextValidation == ValidateBundleSelection

SpecValidation == InitValidation /\ [][NextValidation]_vars

----------------------------------------------------------------------------
(* Claims about validateBundleSelection *)

Total == totalSelections(Get(input.selectedComponents))

\* the rejections that name a bound
Rejected(message) == [valid |-> FALSE, error |-> <<message>>]
NamesAtLeast(n) == "Please select at least " \o String(n) \o " items."
NamesAtMost(n) == "You can select at most " \o String(n) \o " items."

\* C4: a definition with bundleType fixed validates every selection list.
C4_FixedAlwaysValid ==
    (Returned(validation) /\ definition.bundleType = "fixed")
        => validation.value.valid = TRUE

\* a fixed definition given a list that a mix_and_match one would reject
C4_Witness ==
    /\ Returned(validation)
    /\ definition.bundleType = "fixed"
    /\ validation.value.valid
    /\ ~validateBundleSelection_ChecksFixed(definition,
                                            Get(input.selectedComponents)).valid

C6_AcceptsWellFormed ==
    (/\ Returned(validation)
     /\ definition.bundleType = "mix_and_match"
     /\ definition.minSelections # Undefined => Total >= definition.minSelections[1]
     /\ definition.maxSelections # Undefined => Total <= definition.maxSelections[1]
     /\ \A i \in 1..Len(input.selectedComponents[1]) :
            LET sel == input.selectedComponents[1][i]
                listing == {k \in 1..Len(definition.components) :
                                definition.components[k].productId = sel.productId}
            IN /\ listing # {}
               /\ LET c == definition.components[
                                CHOOSE k \in listing : \A l \in listing : k <= l]
                  IN /\ \E v \in 1..Len(c.variants) : c.variants[v].id = sel.variantId
                     /\ c.minQuantity # Undefined => sel.quantity >= c.minQuantity[1]
                     /\ c.maxQuantity # Undefined => sel.quantity <= c.maxQuantity[1])
        => validation.value = [valid |-> TRUE, error |-> Undefined]

\* an accepted entry whose quantity sits on the enforced minimum of its
\* component, the total sitting on both selection bounds
C6_Witness ==
    /\ Returned(validation)
    /\ definition.bundleType = "mix_and_match"
    /\ definition.minSelections = Some(2)
    /\ definition.maxSelections = Some(2)
    /\ Get(input.selectedComponents) = <<Selection("p1", "v2", 2)>>
    /\ definition.components[1].allowQuantitySelection
    /\ definition.components[1].minQuantity = Some(2)
    /\ validation.value.valid

----------------------------------------------------------------------------
(* Specification of one addBundleToCart call *)

CartComponents ==
    { Component("p1", <<Variant("v1", 1000)>>, Undefined, 1, FALSE, Undefined, Undefined),
      Component("p2", <<Variant("v1", 1000), Variant("v2", 1500)>>, Some("v2"), 2,
                TRUE, Undefined, Some(1)),
      Component("p1", <<>>, Undefined, 1, FALSE, Undefined, Undefined) }

CartDefinitions ==
    { Definition(t, cs, NoPricing, b[1], b[2]) :
        t \in {"fixed", "mix_and_match"},
        cs \in SeqsOf(CartComponents, 1, MaxComponents),
        b \in {<<Undefined, Undefined>>, <<Some(1), Some(2)>>} }

CartSelections ==
    { Selection("p1", "v1", 1), Selection("p2", "v2", 2),
      Selection(UnknownProduct, UnknownVariant, 1) }

CartInputs ==
    { AddBundleInput(s, q, c, a) :
        s \in {Undefined} \cup {Some(l) : l \in SeqsOf(CartSelections, 0, MaxSelected)},
        q \in {Undefined, Some(2)},
        c \in {Undefined, Some("gid://shopify/Cart/1")},
        a \in {Undefined, Some(<<[key |-> "gift_note", value |-> "Happy Birthday!"]>>)} }

Configs ==
    { [storefrontAccessToken |-> t] : t \in {Undefined, Some(""), Some("token")} }

Init ==
    /\ hookState = NoHook /\ started = <<>>
    /\ definition \in CartDefinitions
    /\ config \in Configs
    /\ input \in CartInputs
    /\ lines = NotCalled
    /\ groups = NotCalled
    /\ validation = NotCalled
    /\ pc = "idle" /\ requests = 0 /\ validated = FALSE /\ addResult = NotCalled
    /\ response = NotCalled
    /\ OtherCallsIdle
    /\ product = NoProduct /\ resolved = NotCalled /\ price = NotCalled

\* addBundleToCart up to its first suspension: the validation gate,
\* buildBundleCartLines and the token check and fetch of executeCartMutation
AddBundleToCart ==
    /\ pc = "idle"
    /\ LET runs == RunsValidation(definition)
           v == validateBundleSelection(definition, SelectionsToValidate(input))
           built == buildBundleCartLines(definition, input)
       IN /\ validated' = runs
          /\ validation' = IF runs THEN Return(v) ELSE validation
          /\ IF runs /\ ~v.valid
             THEN /\ addResult' = Return(ValidationFailure(v))
                  /\ pc' = "done"
                  /\ UNCHANGED <<lines, requests>>
             ELSE /\ lines' = built
                  /\ IF ~Returned(built)
                     THEN \* thrown outside the try block: the promise rejects
                          /\ addResult' = built
                          /\ pc' = "rejected"
                          /\ UNCHANGED requests
                     ELSE IF TokenMissing(config)
                     THEN /\ addResult' = Return(Failure(
                                "storefrontAccessToken is required for cart operations",
                                Undefined))
                          /\ pc' = "done"
                          /\ UNCHANGED requests
                     ELSE /\ requests' = requests + 1
                          /\ pc' = "awaiting"
                          /\ UNCHANGED addResult
    /\ UNCHANGED <<hookVars, sdkVars, readVars, inventoryVars, resolveVars, groups, response, priceVars>>

\* fetch or response.json() throws: an Error carries its message, anything
\* else gets the default message
FetchThrows ==
    /\ pc = "awaiting"
    /\ \E thrown \in {Some("fetch failed"), Undefined} :
        addResult' = Return(Failure(IF IsDefined(thrown) THEN Get(thrown)
                                    ELSE "Failed to add bundle to cart", Undefined))
    /\ pc' = "done"
    /\ UNCHANGED <<hookVars, sdkVars, readVars, inventoryVars, resolveVars, lineVars, validationVars, requests, validated, response, priceVars>>

ResponseNotOk ==
    /\ pc = "awaiting"
    /\ \E status \in {429, 500} :
        addResult' = Return(Failure("Storefront API error: " \o String(status),
                                    Undefined))
    /\ pc' = "done"
    /\ UNCHANGED <<hookVars, sdkVars, readVars, inventoryVars, resolveVars, lineVars, validationVars, requests, validated, response, priceVars>>

\* data.errors is present; data.errors[0]?.message ?? 'GraphQL error'
ResponseGraphQLErrors ==
    /\ pc = "awaiting"
    /\ \E errors \in {<<>>, <<"Throttled">>} :
        addResult' = Return(Failure(IF Len(errors) > 0 THEN errors[1]
                                    ELSE "GraphQL error", Undefined))
    /\ pc' = "done"
    /\ UNCHANGED <<hookVars, sdkVars, readVars, inventoryVars, resolveVars, lineVars, validationVars, requests, validated, response, priceVars>>

SegLines == <<"l", "i", "n", "e", "s">>
SegMerchandise == <<"m", "e", "r", "c", "h", "a", "n", "d", "i", "s", "e", "I", "d">>

UserErrorFields ==
    { Undefined, Some(<<>>), Some(<<SegLines>>),
      Some(<<SegLines, <<"0">>, SegMerchandise>>),
      Some(<<SegLines, <<"1">>, SegMerchandise>>),
      Some(<<SegLines, <<"1", "0">>>>),
      Some(<<SegLines, <<"-", "1">>>>),
      Some(<<SegLines, <<" ", "1", "x">>>>),
      Some(<<SegLines, SegMerchandise>>) }

Payloads ==
    { Undefined,
      Some([cart |-> Undefined, userErrors |-> Undefined]),
      Some([cart |-> Some("gid://shopify/Cart/1"), userErrors |-> Some(<<>>)]) }
    \cup { Some([cart |-> Undefined,
                 userErrors |-> Some(<<[field |-> f,
                                        message |-> "Merchandise is unavailable",
                                        code |-> "INVALID"]>>)]) :
            f \in UserErrorFields }

\* data.data?.cartCreate ?? data.data?.cartLinesAdd
ResponsePayload ==
    /\ pc = "awaiting"
    /\ \E payload \in Payloads :
        /\ response' = Return(payload)
        /\ addResult' = Return(HandlePayload(lines.value, payload))
    /\ pc' = "done"
    /\ UNCHANGED <<hookVars, sdkVars, readVars, inventoryVars, resolveVars, lineVars, validationVars, requests, validated, priceVars>>

Next ==
    \/ AddBundleToCart
    \/ FetchThrows
    \/ ResponseNotOk
    \/ ResponseGraphQLErrors
    \/ ResponsePayload

Spec == Init /\ [][Next]_vars

----------------------------------------------------------------------------
(* Claims about addBundleToCart *)

\* C7: on a mix_and_match bundle whose selections (an absent list counts as
\* empty) fail validateBundleSelection, the call ends with success: false and
\* the validation error and issues no network request; on a fixed bundle no
\* validation is performed.
C7_ValidationGate ==
    pc # "idle" =>
        /\ (/\ definition.bundleType = "mix_and_match"
            /\ ~validateBundleSelection(
                    definition,
                    IF input.selectedComponents = Undefined THEN <<>>
                    ELSE input.selectedComponents[1]).valid)
            => /\ pc = "done"
               /\ requests = 0
               /\ Returned(addResult)
               /\ addResult.value.success = FALSE
               /\ addResult.value.error =
                    validateBundleSelection(
                        definition,
                        IF input.selectedComponents = Undefined THEN <<>>
                        ELSE input.selectedComponents[1]).error
        /\ definition.bundleType = "fixed" => ~validated

\* a mix_and_match call with a token and no selection list, stopped by the gate
C7_Witness ==
    /\ pc = "done"
    /\ definition.bundleType = "mix_and_match"
    /\ ~TokenMissing(config)
    /\ input.selectedComponents = Undefined
    /\ validated
    /\ addResult.value.error = Some("Please select at least 1 items.")
    /\ requests = 0

----------------------------------------------------------------------------
(* Numbers of the price computations *)

\* parseFloat(money.amount): cents to 1/10000
parseFloat(amount) == amount * 100

\* Number.prototype.toFixed(2): the nearest cent, a tie going to the larger
\* magnitude; the sign is kept
RECURSIVE toFixed2(_)
toFixed2(x) == IF x < 0 THEN 0 - toFixed2(0 - x) ELSE (x + 50) \div 100

\* the number n (an integer) in 1/10000
Number(n) == n * 10000

\* a / 100 and a * b on numbers; the operands of a product are multiples of
\* 1/100 here, so the product is exact
DividedBy100(a) == a \div 100
Times(a, b) == (a \div 100) * (b \div 100)

\* Math.max(0, x)
MaxWithZero_Identity(x) == x

MaxWithZero(x) == IF x < 0 THEN 0 ELSE x

\* a quotient times 100 kept exact: num / den; den = 0 is the NaN or Infinity
\* that JavaScript division by zero yields
Ratio(num, den) == [num |-> num, den |-> den]
ZeroPercent == Ratio(0, 1)
IsZero(r) == r.den # 0 /\ r.num = 0
IsInteger(r) == r.den # 0 /\ r.num % r.den = 0

----------------------------------------------------------------------------
(* sdk/calculatePrice: calculatePriceFromDefinition *)

\* component.variants.find((v) => v.id === component.defaultVariantId) ??
\* component.variants[0]: index of the variant priced by default, 0 if none
DefaultPricedVariant(component) ==
    LET byId == IF IsDefined(component.defaultVariantId)
                THEN FindVariant(component, Get(component.defaultVariantId))
                ELSE 0
    IN IF byId # 0 THEN byId
       ELSE IF Len(component.variants) > 0 THEN 1 ELSE 0

ComponentPrice(productId, variant, quantity, currencyCode) ==
    [productId |-> productId, variantId |-> variant.id, quantity |-> quantity,
     unitPrice |-> variant.price,
     lineTotalAmount |-> parseFloat(variant.price.amount) * quantity,
     lineTotal |-> MoneyIn(toFixed2(parseFloat(variant.price.amount) * quantity),
                           currencyCode)]

RECURSIVE SelectedPrices(_, _, _, _)
SelectedPrices(def, selectedComponents, i, currencyCode) ==
    IF i > Len(selectedComponents) THEN <<>>
    ELSE LET selection == selectedComponents[i]
             k == FindComponent(def, selection.productId)
             v == IF k = 0 THEN 0
                  ELSE FindVariant(def.components[k], selection.variantId)
             rest == SelectedPrices(def, selectedComponents, i + 1, currencyCode)
         IN IF k = 0 \/ v = 0 THEN rest
            ELSE <<ComponentPrice(selection.productId, def.components[k].variants[v],
                                  selection.quantity, currencyCode)>> \o rest

RECURSIVE DefaultPrices(_, _, _)
DefaultPrices(def, i, currencyCode) ==
    IF i > Len(def.components) THEN <<>>
    ELSE LET component == def.components[i]
             v == DefaultPricedVariant(component)
             rest == DefaultPrices(def, i + 1, currencyCode)
         IN IF v = 0 THEN rest
            ELSE <<ComponentPrice(component.productId, component.variants[v],
                                  component.quantity, currencyCode)>> \o rest

RECURSIVE SumLineTotals(_, _)
SumLineTotals(componentPrices, i) ==
    IF i > Len(componentPrices) THEN 0
    ELSE componentPrices[i].lineTotalAmount + SumLineTotals(componentPrices, i + 1)

\* a percentage is subtracted as if it were an amount
DiscountedPrice_PercentageAsAmount(pricing, originalPriceTotal) ==
    LET discountValue == IF IsDefined(pricing.discountValue)
                         THEN Get(pricing.discountValue) ELSE 0
    IN CASE pricing.discountType \in {"percentage", "fixed_amount"} ->
                originalPriceTotal - discountValue
         [] pricing.discountType = "fixed_price" ->
                IF IsDefined(pricing.discountValue) THEN Get(pricing.discountValue)
                ELSE originalPriceTotal
         [] OTHER ->
                IF IsDefined(pricing.bundlePrice)
                THEN parseFloat(Get(pricing.bundlePrice).amount)
                ELSE originalPriceTotal

DiscountedPrice_FixedPriceAsAmount(pricing, originalPriceTotal) ==
    LET discountValue == IF IsDefined(pricing.discountValue)
                         THEN Get(pricing.discountValue) ELSE 0
    IN CASE pricing.discountType = "percentage" ->
                Times(originalPriceTotal, Number(1) - DividedBy100(discountValue))
         [] pricing.discountType = "fixed_amount" ->
                originalPriceTotal - discountValue
         [] pricing.discountType = "fixed_price" ->
                originalPriceTotal - discountValue
         [] OTHER ->
                IF IsDefined(pricing.bundlePrice)
                THEN parseFloat(Get(pricing.bundlePrice).amount)
                ELSE originalPriceTotal

\* the switch on definition.pricing.discountType
DiscountedPrice(pricing, originalPriceTotal) ==
    LET discountValue == IF IsDefined(pricing.discountValue)
                         THEN Get(pricing.discountValue) ELSE 0
    IN CASE pricing.discountType = "percentage" ->
                Times(originalPriceTotal, Number(1) - DividedBy100(discountValue))
         [] pricing.discountType = "fixed_amount" ->
                originalPriceTotal - discountValue
         [] pricing.discountType = "fixed_price" ->
                IF IsDefined(pricing.discountValue) THEN Get(pricing.discountValue)
                ELSE originalPriceTotal
         [] OTHER ->
                \* a bundlePrice object is truthy whatever its amount
                IF IsDefined(pricing.bundlePrice)
                THEN parseFloat(Get(pricing.bundlePrice).amount)
                ELSE originalPriceTotal

SavingsPercentage_Unguarded(savingsAmount, originalPriceTotal) ==
    Ratio(savingsAmount * 100, originalPriceTotal)

\* originalPriceTotal > 0 ? (savingsAmount / originalPriceTotal) * 100 : 0
SavingsPercentage(savingsAmount, originalPriceTotal) ==
    IF originalPriceTotal > 0 THEN Ratio(savingsAmount * 100, originalPriceTotal)
    ELSE ZeroPercent

calculatePriceFromDefinition(def, selectedComponents) ==
    LET currencyCode == IF IsDefined(def.pricing.currencyCode)
                        THEN Get(def.pricing.currencyCode) ELSE "USD"
        componentPrices ==
            IF UsesSelections(selectedComponents)
            THEN SelectedPrices(def, Get(selectedComponents), 1, currencyCode)
            ELSE DefaultPrices(def, 1, currencyCode)
        originalPriceTotal == SumLineTotals(componentPrices, 1)
        bundlePriceAmount == MaxWithZero(DiscountedPrice(def.pricing, originalPriceTotal))
        savingsAmount == originalPriceTotal - bundlePriceAmount
    IN [originalPrice |-> MoneyIn(toFixed2(originalPriceTotal), currencyCode),
        bundlePrice |-> MoneyIn(toFixed2(bundlePriceAmount), currencyCode),
        savings |-> MoneyIn(toFixed2(savingsAmount), currencyCode),
        savingsPercentage |-> SavingsPercentage(savingsAmount, originalPriceTotal),
        componentPrices |->
            [i \in 1..Len(componentPrices) |->
                [productId |-> componentPrices[i].productId,
                 variantId |-> componentPrices[i].variantId,
                 quantity |-> componentPrices[i].quantity,
                 unitPrice |-> componentPrices[i].unitPrice,
                 lineTotal |-> componentPrices[i].lineTotal]]]

----------------------------------------------------------------------------
(* sdk/resolveBundle: parseStorefrontResponse *)

Null == Undefined

\* product.variants.nodes.find: the first variant with a non-empty
\* bundleComponents list, 0 if none
BundleVariantIndex(prod) ==
    LET has(i) == /\ IsDefined(prod.variants[i].bundleComponents)
                  /\ Len(Get(prod.variants[i].bundleComponents)) > 0
    IN IF \E i \in 1..Len(prod.variants) : has(i)
       THEN CHOOSE i \in 1..Len(prod.variants) :
                has(i) /\ \A j \in 1..(i - 1) : ~has(j)
       ELSE 0

RECURSIVE SumComponents(_, _)
SumComponents(components, i) ==
    IF i > Len(components) THEN 0
    ELSE parseFloat(components[i].variants[1].price.amount) * components[i].quantity
         + SumComponents(components, i + 1)

ResolvedSavingsPercentage(savingsAmount, originalPriceAmount) ==
    IF originalPriceAmount > 0 THEN Ratio(savingsAmount * 100, originalPriceAmount)
    ELSE ZeroPercent

parseStorefrontResponse(prod) ==
    LET b == BundleVariantIndex(prod) IN
    IF b = 0 THEN Null
    ELSE LET bundleVariant == prod.variants[b]
             nodes == Get(bundleVariant.bundleComponents)
             components ==
                [i \in 1..Len(nodes) |->
                    [productId |-> nodes[i].product.id,
                     productTitle |-> nodes[i].product.title,
                     variants |-> <<nodes[i].variant>>,
                     defaultVariantId |-> Some(nodes[i].variant.id),
                     quantity |-> nodes[i].quantity,
                     allowQuantitySelection |-> FALSE,
                     minQuantity |-> Undefined, maxQuantity |-> Undefined]]
             originalPriceAmount == SumComponents(components, 1)
             bundlePriceAmount == parseFloat(bundleVariant.price.amount)
             savingsAmount == originalPriceAmount - bundlePriceAmount
             savingsPercentage ==
                ResolvedSavingsPercentage(savingsAmount, originalPriceAmount)
             \* savingsPercentage === Math.round(savingsPercentage)
             discountType == IF IsInteger(savingsPercentage) THEN "percentage"
                             ELSE "fixed_amount"
             currencyCode == bundleVariant.price.currencyCode
         IN Some([id |-> prod.id, bundleType |-> "fixed", components |-> components,
                  pricing |->
                    [discountType |-> discountType,
                     discountValue |->
                        IF discountType = "percentage"
                        THEN Some(Number(savingsPercentage.num \div savingsPercentage.den))
                        ELSE Some(savingsAmount),
                     currencyCode |-> Some(currencyCode),
                     originalPrice |-> Some(MoneyIn(toFixed2(originalPriceAmount),
                                                    currencyCode)),
                     bundlePrice |-> Some(bundleVariant.price),
                     savings |-> Some(MoneyIn(toFixed2(savingsAmount), currencyCode)),
                     savingsPercentage |-> Some(savingsPercentage)],
                  minSelections |-> Undefined, maxSelections |-> Undefined])

----------------------------------------------------------------------------
(* Specification of the price calculator and the resolver's normalisation *)

\* prices of $9.99, $10.00, $15.00 and $0.00; a component without variants, one
\* whose default variant is not listed and one with quantity 0
PriceComponents ==
    { Component("p1", <<Variant("v1", 999)>>, Undefined, 1, FALSE, Undefined, Undefined),
      Component("p1", <<Variant("v1", 1000), Variant("v2", 1500)>>, Some("v2"), 2,
                FALSE, Undefined, Undefined),
      Component("p2", <<Variant("v1", 0)>>, Undefined, 1, FALSE, Undefined, Undefined),
      Component("p2", <<>>, Undefined, 1, FALSE, Undefined, Undefined),
      Component("p1", <<Variant("v1", 1000)>>, Some("v2"), 1, FALSE, Undefined, Undefined),
      Component("p2", <<Variant("v1", 1000)>>, Undefined, 0, FALSE, Undefined, Undefined) }

\* percentages of 10, 50 and 150; amounts of $5.00, $50.00, -$5.00 and $12.346
Pricings ==
    { Pricing("percentage", v, Undefined) :
        v \in {Undefined, Some(Number(10)), Some(Number(50)), Some(Number(150))} }
    \cup { Pricing(t, v, Undefined) :
            t \in {"fixed_amount", "fixed_price"},
            v \in {Undefined, Some(parseFloat(500)), Some(parseFloat(5000)),
                   Some(parseFloat(0 - 500)), Some(123460)} }
    \cup { Pricing("custom", Undefined, b) :
            b \in {Undefined, Some(Money(2500)), Some(Money(0))} }

PriceDefinitions ==
    { Definition("mix_and_match", cs, pr, Undefined, Undefined) :
        cs \in SeqsOf(PriceComponents, 1, MaxComponents), pr \in Pricings }

PriceSelections ==
    { Selection("p1", "v1", 1), Selection("p1", "v2", 2),
      Selection(UnknownProduct, "v1", 1), Selection("p2", "v1", 0) }

PriceInputs ==
    { AddBundleInput(s, Undefined, Undefined, Undefined) :
        s \in {Undefined} \cup {Some(l) : l \in SeqsOf(PriceSelections, 0, MaxSelected)} }

\* bundleComponents.nodes entries of the storefront payload
BundleComponentNodes ==
    { [product |-> [id |-> "p1", title |-> "Product 1"],
       variant |-> Variant("v1", 1000), quantity |-> 2],
      [product |-> [id |-> "p2", title |-> "Product 2"],
       variant |-> Variant("v2", 1500), quantity |-> 1],
      [product |-> [id |-> "p1", title |-> "Product 1"],
       variant |-> Variant("v1", 0), quantity |-> 1],
      [product |-> [id |-> "p2", title |-> "Product 2"],
       variant |-> Variant("v2", 999), quantity |-> 0] }

ProductVariants ==
    { [id |-> "bv", price |-> Money(c), bundleComponents |-> bc] :
        c \in {0, 3000, 3150},
        bc \in {Undefined, Some(<<>>)}
               \cup {Some(ns) : ns \in SeqsOf(BundleComponentNodes, 1, MaxComponents)} }

StorefrontProducts ==
    { [id |-> BundleId, variants |-> vs] :
        vs \in {<<v>> : v \in ProductVariants}
               \cup {<<[id |-> "plain", price |-> Money(3000),
                        bundleComponents |-> Undefined], v>> : v \in ProductVariants} }

InitPrice ==
    /\ hookState = NoHook /\ started = <<>>
    /\ \/ /\ definition \in PriceDefinitions
          /\ input \in PriceInputs
          /\ product = NoProduct
       \/ /\ definition = NoDefinition
          /\ input = NoInput
          /\ product \in StorefrontProducts
    /\ config = NoConfig
    /\ lines = NotCalled
    /\ groups = NotCalled
    /\ validation = NotCalled
    /\ pc = "idle" /\ requests = 0 /\ validated = FALSE /\ addResult = NotCalled
    /\ response = NotCalled
    /\ OtherCallsIdle
    /\ resolved = NotCalled /\ price = NotCalled

\* the direct path of resolveBundle: the definition is what
\* parseStorefrontResponse makes of the product; null is "not a bundle"
ParseStorefrontResponse ==
    /\ product # NoProduct
    /\ resolved = NotCalled
    /\ LET def == parseStorefrontResponse(product) IN
        /\ resolved' = Return(def)
        /\ definition' = IF def = Null THEN definition ELSE Get(def)
    /\ UNCHANGED <<hookVars, config, input, readVars, inventoryVars, resolveVars, lineVars, validationVars, cartVars, product, price>>

CalculatePriceFromDefinition ==
    /\ definition # NoDefinition
    /\ price = NotCalled
    /\ price' = Return(calculatePriceFromDefinition(definition, input.selectedComponents))
    /\ UNCHANGED <<hookVars, sdkVars, readVars, inventoryVars, resolveVars, lineVars, validationVars, cartVars, product, resolved>>

NextPrice == ParseStorefrontResponse \/ CalculatePriceFromDefinition

SpecPrice == InitPrice /\ [][NextPrice]_vars

----------------------------------------------------------------------------
(* Claims about the price calculator *)

\* C8: the bundle price the price calculator returns is never negative.
C8_BundlePriceNotNegative ==
    Returned(price) => price.value.bundlePrice.amount >= 0

\* a discount larger than the original price
C8_Witness ==
    /\ Returned(price)
    /\ definition.pricing.discountType = "fixed_amount"
    /\ definition.pricing.discountValue = Some(parseFloat(5000))
    /\ price.value.originalPrice.amount > 0
    /\ price.value.originalPrice.amount < 5000
    /\ price.value.bundlePrice.amount = 0

\* C9: in every result of the price calculator savings equals originalPrice
\* minus bundlePrice, originalPrice being the sum of the line totals of the
\* priced components.
C9_SavingsIsDifference ==
    Returned(price) =>
        LET r == price.value
            SumTotals[i \in 0..Len(r.componentPrices)] ==
                IF i = 0 THEN 0 ELSE SumTotals[i - 1] + r.componentPrices[i].lineTotal.amount
        IN /\ r.originalPrice.amount = SumTotals[Len(r.componentPrices)]
           /\ r.savings.amount = r.originalPrice.amount - r.bundlePrice.amount

\* C10: when the original price is 0 the savings percentage is 0 and the
\* computation completes, in the price calculator and in the resolver's
\* direct normalisation.
C10_ZeroOriginalZeroPercent ==
    /\ (Returned(price) /\ price.value.originalPrice.amount = 0)
            => /\ price.value.savingsPercentage.den # 0
               /\ price.value.savingsPercentage.num = 0
    /\ (Returned(resolved) /\ resolved.value # Null
        /\ resolved.value[1].pricing.originalPrice[1].amount = 0)
            => /\ resolved.value[1].pricing.savingsPercentage[1].den # 0
               /\ resolved.value[1].pricing.savingsPercentage[1].num = 0

\* a product whose components cost nothing while the bundle variant is
\* priced, resolved and then priced locally
C10_Witness ==
    /\ Returned(resolved) /\ resolved.value # Null
    /\ Get(resolved.value).pricing.originalPrice = Some(Money(0))
    /\ Get(resolved.value).pricing.savings = Some(Money(0 - 3000))
    /\ Returned(price)
    /\ price.value.originalPrice = Money(0)

----------------------------------------------------------------------------
(* sdk/checkInventory: checkInventoryFromStorefrontApi *)

LOW_STOCK_THRESHOLD == 5

\* an error made by createError
Fault(code, message) == [completion |-> "throw", code |-> code, message |-> message]

\* quantityAvailable as it is read from the JSON response: the property is
\* missing, null or a number; value is what a comparison or a division
\* converts it to
QuantityMissing == [kind |-> "undefined", value |-> 0]
QuantityNull == [kind |-> "null", value |-> 0]
QuantityOf(n) == [kind |-> "number", value |-> n]

getAvailabilityStatus(availableForSale, quantityAvailable) ==
    IF ~availableForSale THEN "out_of_stock"
    ELSE IF quantityAvailable.kind = "undefined" THEN "available"
    ELSE IF quantityAvailable.kind = "number" /\ quantityAvailable.value = 0
    THEN "out_of_stock"
    ELSE IF quantityAvailable.value <= LOW_STOCK_THRESHOLD THEN "limited"
    ELSE "available"

\* the second resolution of the component list, as buildBundleCartLines has it
variantsToCheck(def, selectedComponents) ==
    IF UsesSelections(selectedComponents)
    THEN LET sel == Get(selectedComponents) IN
         [i \in 1..Len(sel) |->
            [productId |-> sel[i].productId, variantId |-> sel[i].variantId,
             quantity |-> sel[i].quantity]]
    ELSE [i \in 1..Len(def.components) |->
            LET c == def.components[i] IN
            [productId |-> c.productId,
             variantId |-> IF IsDefined(c.defaultVariantId)
                           THEN Get(c.defaultVariantId) ELSE c.variants[1].id,
             quantity |-> c.quantity]]

\* c.variants[0]!.id throws for a component without default and variants
variantsToCheckThrows(def, selectedComponents) ==
    /\ ~UsesSelections(selectedComponents)
    /\ \E i \in 1..Len(def.components) :
        /\ ~IsDefined(def.components[i].defaultVariantId)
        /\ Len(def.components[i].variants) = 0

\* data.data?.nodes?.find((n) => n?.id === check.variantId): index, 0 if none
FindNode(responseNodes, variantId) ==
    LET is(i) == ~responseNodes[i].isNull /\ responseNodes[i].id = variantId
    IN IF \E i \in 1..Len(responseNodes) : is(i)
       THEN CHOOSE i \in 1..Len(responseNodes) : is(i) /\ \A j \in 1..(i - 1) : ~is(j)
       ELSE 0

ComponentInventoryOf(check, responseNodes) ==
    LET n == FindNode(responseNodes, check.variantId)
        \* variant?.availableForSale ?? false
        availableForSale == IF n = 0 THEN FALSE ELSE responseNodes[n].availableForSale
        quantityAvailable == IF n = 0 THEN QuantityMissing
                             ELSE responseNodes[n].quantityAvailable
    IN [productId |-> check.productId, variantId |-> check.variantId,
        status |-> getAvailabilityStatus(availableForSale, quantityAvailable),
        quantityAvailable |-> quantityAvailable,
        maxAddable |->
            IF quantityAvailable.kind # "undefined" /\ check.quantity > 0
            THEN Some(quantityAvailable.value \div check.quantity)
            ELSE Undefined]

IsNewMinimum_OrEqual(maxAddable, minMaxQuantity) ==
    IsDefined(maxAddable)
        /\ (~IsDefined(minMaxQuantity) \/ Get(maxAddable) <= Get(minMaxQuantity))

\* maxAddable !== undefined && maxAddable < minMaxQuantity, Infinity being
\* the absent minimum
IsNewMinimum(maxAddable, minMaxQuantity) ==
    IsDefined(maxAddable)
        /\ (~IsDefined(minMaxQuantity) \/ Get(maxAddable) < Get(minMaxQuantity))

RECURSIVE CheckEach(_, _, _, _)
CheckEach(toCheck, responseNodes, i, acc) ==
    IF i > Len(toCheck) THEN acc
    ELSE LET componentInventory == ComponentInventoryOf(toCheck[i], responseNodes)
             tracked == IsNewMinimum(componentInventory.maxAddable, acc.minMaxQuantity)
         IN CheckEach(toCheck, responseNodes, i + 1,
                [components |-> Append(acc.components, componentInventory),
                 minMaxQuantity |-> IF tracked THEN componentInventory.maxAddable
                                    ELSE acc.minMaxQuantity,
                 limitingComponent |-> IF tracked THEN Some(componentInventory)
                                       ELSE acc.limitingComponent])

HasStatus(components, status) ==
    \E i \in 1..Len(components) : components[i].status = status

Available_AlsoNotLimited(components) ==
    ~HasStatus(components, "out_of_stock") /\ ~HasStatus(components, "limited")

\* available: !hasOutOfStock
Available(components) == ~HasStatus(components, "out_of_stock")

BundleInventoryOf(toCheck, responseNodes) ==
    LET checked == CheckEach(toCheck, responseNodes, 1,
                        [components |-> <<>>, minMaxQuantity |-> Undefined,
                         limitingComponent |-> Undefined])
        hasOutOfStock == HasStatus(checked.components, "out_of_stock")
        hasLimited == HasStatus(checked.components, "limited")
    IN [available |-> Available(checked.components),
        status |-> IF hasOutOfStock THEN "out_of_stock"
                   ELSE IF hasLimited THEN "limited" ELSE "available",
        maxQuantity |-> IF IsDefined(checked.minMaxQuantity)
                        THEN Get(checked.minMaxQuantity) ELSE 99,
        limitingComponent |-> IF hasOutOfStock \/ hasLimited
                              THEN checked.limitingComponent ELSE Undefined,
        components |-> checked.components]

----------------------------------------------------------------------------
(* Specification of one checkInventoryFromStorefrontApi call *)

MaxChecked == 2        \* components of a definition, entries of a selection list
MaxNodes == 2          \* nodes of an inventory response

InventoryComponents ==
    { Component("p1", <<Variant("v1", 1000)>>, Undefined, 2, FALSE, Undefined, Undefined),
      Component("p2", <<Variant("v1", 1000), Variant("v2", 1500)>>, Some("v2"), 1,
                FALSE, Undefined, Undefined),
      Component("p2", <<Variant("v2", 1500)>>, Undefined, 0, FALSE, Undefined, Undefined),
      Component("p1", <<>>, Undefined, 1, FALSE, Undefined, Undefined) }

InventoryDefinitions ==
    { Definition("fixed", cs, NoPricing, Undefined, Undefined) :
        cs \in SeqsOf(InventoryComponents, 1, MaxChecked) }

InventorySelections ==
    { Selection("p1", "v1", 1), Selection(UnknownProduct, UnknownVariant, 1) }

\* nodes(ids:) answers null for an id it does not know
NullNode ==
    [isNull |-> TRUE, id |-> "", availableForSale |-> FALSE,
     quantityAvailable |-> QuantityMissing]
Node(id, availableForSale, quantityAvailable) ==
    [isNull |-> FALSE, id |-> id, availableForSale |-> availableForSale,
     quantityAvailable |-> quantityAvailable]

ResponseNodes ==
    { NullNode, Node("v1", FALSE, QuantityOf(6)), Node("v2", TRUE, QuantityOf(2)),
      Node("v2", TRUE, QuantityMissing) }
    \cup { Node("v1", TRUE, q) :
            q \in {QuantityMissing, QuantityNull, QuantityOf(0), QuantityOf(4),
                   QuantityOf(5), QuantityOf(6)} }

InventoryData ==
    {Undefined} \cup {Some(ns) : ns \in SeqsOf(ResponseNodes, 0, MaxNodes)}

InitInventory ==
    /\ hookState = NoHook /\ started = <<>>
    /\ \/ /\ definition \in InventoryDefinitions
          /\ input = NoInput
       \/ /\ definition = Definition("mix_and_match", <<>>, NoPricing, Undefined, Undefined)
          /\ input \in { AddBundleInput(Some(l), Undefined, Undefined, Undefined) :
                            l \in SeqsOf(InventorySelections, 1, MaxChecked) }
    /\ config \in Configs
    /\ lines = NotCalled
    /\ groups = NotCalled
    /\ validation = NotCalled
    /\ pc = "off" /\ requests = 0 /\ validated = FALSE /\ addResult = NotCalled
    /\ response = NotCalled
    /\ product = NoProduct /\ resolved = NotCalled /\ price = NotCalled
    /\ flags = NotCalled
    /\ invPc = "idle" /\ checks = <<>> /\ data = Undefined /\ inventory = NotCalled
    /\ resPc = "off" /\ cache = <<>> /\ now = 0 /\ call = NoCall
    /\ resolveResult = NotCalled

\* checkInventoryFromStorefrontApi up to its first suspension
CheckInventoryFromStorefrontApi ==
    /\ invPc = "idle"
    /\ IF TokenMissing(config)
       THEN /\ inventory' = Fault("INVALID_CONFIG",
                    "storefrontAccessToken is required when not using hosted backend")
            /\ invPc' = "rejected"
            /\ UNCHANGED <<checks, requests>>
       ELSE IF variantsToCheckThrows(definition, input.selectedComponents)
       THEN /\ inventory' = Throw("TypeError")
            /\ invPc' = "rejected"
            /\ UNCHANGED <<checks, requests>>
       ELSE /\ checks' = variantsToCheck(definition, input.selectedComponents)
            /\ requests' = requests + 1
            /\ invPc' = "awaiting"
            /\ UNCHANGED inventory
    /\ UNCHANGED <<hookVars, sdkVars, readVars, resolveVars, lineVars, validationVars, pc,
                   validated, addResult, response, priceVars, data>>

\* fetch or response.json() rejects: nothing catches it
InventoryFetchThrows ==
    /\ invPc = "awaiting"
    /\ inventory' = Throw("fetch failed")
    /\ invPc' = "rejected"
    /\ UNCHANGED <<hookVars, sdkVars, readVars, resolveVars, lineVars, validationVars, cartVars,
                   priceVars, checks, data>>

InventoryResponseNotOk ==
    /\ invPc = "awaiting"
    /\ \E status \in {429, 500} :
        inventory' = Fault("NETWORK_ERROR", "Storefront API error: " \o String(status))
    /\ invPc' = "rejected"
    /\ UNCHANGED <<hookVars, sdkVars, readVars, resolveVars, lineVars, validationVars, cartVars,
                   priceVars, checks, data>>

InventoryGraphQLErrors ==
    /\ invPc = "awaiting"
    /\ \E errors \in {<<>>, <<"Throttled">>} :
        inventory' = Fault("UNKNOWN_ERROR",
                           IF Len(errors) > 0 THEN errors[1] ELSE "GraphQL error")
    /\ invPc' = "rejected"
    /\ UNCHANGED <<hookVars, sdkVars, readVars, resolveVars, lineVars, validationVars, cartVars,
                   priceVars, checks, data>>

\* the response carries data; data.data?.nodes may be missing
InventoryResponse ==
    /\ invPc = "awaiting"
    /\ \E d \in InventoryData :
        /\ data' = d
        /\ inventory' = Return(BundleInventoryOf(checks, IF IsDefined(d) THEN Get(d)
                                                          ELSE <<>>))
    /\ invPc' = "done"
    /\ UNCHANGED <<hookVars, sdkVars, readVars, resolveVars, lineVars, validationVars, cartVars,
                   priceVars, checks>>

NextInventory ==
    \/ CheckInventoryFromStorefrontApi
    \/ InventoryFetchThrows
    \/ InventoryResponseNotOk
    \/ InventoryGraphQLErrors
    \/ InventoryResponse

SpecInventory == InitInventory /\ [][NextInventory]_vars

----------------------------------------------------------------------------
(* Claims about the inventory check *)

\* C12: in every BundleInventory of the direct storefront path, available is
\* false if and only if some entry of components has status out_of_stock.
C12_AvailableIffNoneOutOfStock ==
    Returned(inventory) =>
        LET r == inventory.value IN
        (r.available = FALSE)
            <=> (\E i \in 1..Len(r.components) : r.components[i].status = "out_of_stock")

\* a bundle with a limited component and none out of stock stays available
C12_Witness ==
    /\ Returned(inventory)
    /\ inventory.value.status = "limited"
    /\ inventory.value.available
    /\ Len(inventory.value.components) = MaxChecked

\* C13: maxQuantity is the minimum of the defined maxAddable values of the
\* checked components and 99 when none is defined; each maxAddable is
\* floor(quantityAvailable / requiredQuantity) when the response gives a
\* quantity and requiredQuantity > 0, and is undefined otherwise.
C13_MaxQuantityIsMinMaxAddable ==
    Returned(inventory) =>
        LET r == inventory.value
            known(i) == r.components[i].quantityAvailable.kind = "number"
            bounded == {i \in 1..Len(r.components) : r.components[i].maxAddable # <<>>}
        IN /\ \A i \in 1..Len(r.components) :
                r.components[i].maxAddable =
                    IF known(i) /\ checks[i].quantity > 0
                    THEN <<r.components[i].quantityAvailable.value \div checks[i].quantity>>
                    ELSE <<>>
           /\ IF bounded = {} THEN r.maxQuantity = 99
              ELSE /\ \E i \in bounded : r.components[i].maxAddable[1] = r.maxQuantity
                   /\ \A i \in bounded : r.components[i].maxAddable[1] >= r.maxQuantity

\* C14: limitingComponent is present only when the aggregate status is
\* out_of_stock or limited; when present it is the first checked component
\* whose maxAddable equals maxQuantity; an all-available bundle has none.
C14_LimitingComponent ==
    Returned(inventory) =>
        LET r == inventory.value
            achieves(i) == r.components[i].maxAddable = <<r.maxQuantity>>
        IN /\ r.limitingComponent # <<>> =>
                /\ r.status \in {"out_of_stock", "limited"}
                /\ \E i \in 1..Len(r.components) :
                    /\ achieves(i)
                    /\ \A j \in 1..(i - 1) : ~achieves(j)
                    /\ r.limitingComponent = <<r.components[i]>>
           /\ r.status = "available" => r.limitingComponent = <<>>

\* the scenario of the specification: quantityAvailable 4 and requiredQuantity
\* 2 give maxAddable 2, status limited, maxQuantity 2 and this component as
\* the limiting one, a second component tying with it
C14_Witness ==
    /\ Returned(inventory)
    /\ Len(inventory.value.components) = 2
    /\ checks[1].quantity = 2
    /\ inventory.value.components[1].quantityAvailable = QuantityOf(4)
    /\ inventory.value.components[1].maxAddable = Some(2)
    /\ inventory.value.components[2].maxAddable = Some(2)
    /\ inventory.value.components[2] # inventory.value.components[1]
    /\ inventory.value.status = "limited"
    /\ inventory.value.maxQuantity = 2
    /\ inventory.value.limitingComponent = Some(inventory.value.components[1])

\* C15: a component is out_of_stock when its variant is not for sale or its
\* quantity is exactly 0, available when it is for sale with unknown quantity
\* or a quantity above 5, limited when it is for sale with a quantity in 1..5;
\* the aggregate is out_of_stock if any component is, else limited if any is,
\* else available; preorder never occurs.
C15_StatusClassification ==
    Returned(inventory) =>
        LET r == inventory.value
            responseNodes == IF data = <<>> THEN <<>> ELSE data[1]
            answers(i) == {n \in 1..Len(responseNodes) :
                                /\ ~responseNodes[n].isNull
                                /\ responseNodes[n].id = r.components[i].variantId}
            forSale(i) == /\ answers(i) # {}
                          /\ responseNodes[CHOOSE n \in answers(i) :
                                \A m \in answers(i) : n <= m].availableForSale
            q(i) == r.components[i].quantityAvailable
            statuses == {r.components[i].status : i \in 1..Len(r.components)}
        IN /\ \A i \in 1..Len(r.components) :
                r.components[i].status =
                    IF ~forSale(i) THEN "out_of_stock"
                    ELSE IF q(i).kind # "number" THEN "available"
                    ELSE IF q(i).value = 0 THEN "out_of_stock"
                    ELSE IF q(i).value \in 1..5 THEN "limited"
                    ELSE "available"
           /\ r.status = IF "out_of_stock" \in statuses THEN "out_of_stock"
                         ELSE IF "limited" \in statuses THEN "limited"
                         ELSE "available"
           /\ "preorder" \notin statuses \cup {r.status}

----------------------------------------------------------------------------
(* Specification of the three resolutions of the component list: the cart-line
   builder, the inventory check and the price calculator called with one
   definition and one selection list *)

ComponentDefinitions ==
    { Definition(t, cs, NoPricing, Undefined, Undefined) :
        t \in {"fixed", "mix_and_match"},
        cs \in SeqsOf(PriceComponents, 1, MaxComponents) }

InitComponents ==
    /\ hookState = NoHook /\ started = <<>>
    /\ definition \in ComponentDefinitions
    /\ input \in PriceInputs
    /\ config = [storefrontAccessToken |-> Some("token")]
    /\ lines = NotCalled
    /\ groups = NotCalled
    /\ validation = NotCalled
    /\ pc = "off" /\ requests = 0 /\ validated = FALSE /\ addResult = NotCalled
    /\ response = NotCalled
    /\ product = NoProduct /\ resolved = NotCalled /\ price = NotCalled
    /\ flags = NotCalled
    /\ invPc = "idle" /\ checks = <<>> /\ data = Undefined /\ inventory = NotCalled
    /\ resPc = "off" /\ cache = <<>> /\ now = 0 /\ call = NoCall
    /\ resolveResult = NotCalled

NextComponents ==
    \/ BuildBundleCartLines
    \/ CheckInventoryFromStorefrontApi
    \/ CalculatePriceFromDefinition

SpecComponents == InitComponents /\ [][NextComponents]_vars

\* C16: for one definition and one selection list the cart-line builder, the
\* inventory check and the price calculator resolve the same list of
\* (product, variant, quantity): the selections when the list is non-empty,
\* otherwise one entry per definition component with its default variant (the
\* first variant when no default is set).
C16_SameComponents ==
    (Returned(lines) /\ invPc = "awaiting" /\ Returned(price)) =>
        LET Triple(productId, variantId, quantity) ==
                [productId |-> productId, variantId |-> variantId, quantity |-> quantity]
            built == [i \in 1..Len(lines.value) |->
                        Triple(FindValue(lines.value[i].attributes,
                                         BUNDLE_ATTRIBUTES.componentProductId)[1],
                               lines.value[i].merchandiseId,
                               lines.value[i].quantity)]
            checked == [i \in 1..Len(checks) |->
                        Triple(checks[i].productId, checks[i].variantId,
                               checks[i].quantity)]
            priced == [i \in 1..Len(price.value.componentPrices) |->
                        LET c == price.value.componentPrices[i] IN
                        Triple(c.productId, c.variantId, c.quantity)]
            expected ==
                IF input.selectedComponents # <<>> /\ input.selectedComponents[1] # <<>>
                THEN input.selectedComponents[1]
                ELSE [i \in 1..Len(definition.components) |->
                        LET c == definition.components[i] IN
                        Triple(c.productId,
                               IF c.defaultVariantId # <<>> THEN c.defaultVariantId[1]
                               ELSE c.variants[1].id,
                               c.quantity)]
        IN built = expected /\ checked = expected /\ priced = expected

----------------------------------------------------------------------------
(* More claims about the price calculator *)

\* C11 as stated: with discountType fixed_price the bundle price equals
\* pricing.discountValue exactly, whatever the components and selections are.
C11_FixedPriceIsDiscountValue ==
    (/\ Returned(price)
     /\ definition.pricing.discountType = "fixed_price"
     /\ definition.pricing.discountValue # Undefined)
        => price.value.bundlePrice.amount * 100 = definition.pricing.discountValue[1]

\* C11 amended: with discountType fixed_price the bundle price is
\* discountValue raised to 0 when negative and rounded to cents, whatever
\* the components and selections are; without a discountValue it is the
\* original price.
C11_FixedPriceIsFlooredRoundedValue ==
    (Returned(price) /\ definition.pricing.discountType = "fixed_price")
        => IF definition.pricing.discountValue = Undefined
           THEN price.value.bundlePrice.amount = price.value.originalPrice.amount
           ELSE LET v == definition.pricing.discountValue[1] IN
                price.value.bundlePrice.amount
                    = IF v < 0 THEN 0 ELSE (v + 50) \div 100

\* a fixed price of $5.00 on components that cost something else
C11_Witness ==
    /\ Returned(price)
    /\ definition.pricing.discountType = "fixed_price"
    /\ definition.pricing.discountValue = Some(parseFloat(500))
    /\ price.value.originalPrice.amount > 500
    /\ price.value.bundlePrice = Money(500)

----------------------------------------------------------------------------
(* resolveBundle and the definition cache.  Calls follow one another; a map
   of memoryCache takes each key to its entry, if it has one; time is in
   milliseconds. *)

\* CACHE_TTL.definition
DefinitionTtl == 5 * 60 * 1000

\* entries never expire
Expired_Never(entry, t) == FALSE

\* a cache entry that getFromCache finds expired at time t
Expired(entry, t) == t - entry.timestamp > entry.ttl

\* getFromCache: the data of the entry, null when there is none or it has
\* expired; an expired entry is deleted
getFromCache(c, key, t) ==
    IF ~IsDefined(c[key]) THEN [data |-> Null, cache |-> c]
    ELSE IF Expired(Get(c[key]), t)
    THEN [data |-> Null, cache |-> [c EXCEPT ![key] = Undefined]]
    ELSE [data |-> Get(c[key]).data, cache |-> c]

\* setInCache
setInCache(c, key, d, t, ttl) ==
    [c EXCEPT ![key] = Some([data |-> d, timestamp |-> t, ttl |-> ttl])]

\* config.cacheTtl taken as milliseconds
EntryTtl_InMilliseconds(cfg) ==
    IF Truthy(cfg.cacheTtl)
    THEN Get(cfg.cacheTtl)
    ELSE DefinitionTtl

\* config.cacheTtl ? config.cacheTtl * 1000 : undefined, with the default
\* of cacheDefinition
EntryTtl(cfg) ==
    IF Truthy(cfg.cacheTtl)
    THEN Get(cfg.cacheTtl) * 1000
    ELSE DefinitionTtl

\* config.enableCache !== false
CachingEnabled(cfg) == cfg.enableCache # Some(FALSE)

\* config.apiKey && config.apiUrl
UsesBackend(cfg) ==
    /\ IsDefined(cfg.apiKey) /\ Get(cfg.apiKey) # ""
    /\ IsDefined(cfg.apiUrl) /\ Get(cfg.apiUrl) # ""

\* createError without a custom message
DefaultMessage(code) ==
    CASE code = "BUNDLE_NOT_FOUND" -> "Bundle not found."
      [] code = "RATE_LIMITED" -> "Too many requests. Please wait a moment."
      [] OTHER -> "An unexpected error occurred."

\* parseApiError of a response without a code
parseApiError(status, error) ==
    LET code == IF status = 404 THEN "BUNDLE_NOT_FOUND"
                ELSE IF status = 429 THEN "RATE_LIMITED"
                ELSE "UNKNOWN_ERROR"
    IN Fault(code, IF IsDefined(error) THEN Get(error) ELSE DefaultMessage(code))

MaxCalls == 3

BundleIds == {BundleId}

ResolveConfig(token, apiKey, apiUrl, enableCache, cacheTtl) ==
    [storefrontAccessToken |-> token, apiKey |-> apiKey, apiUrl |-> apiUrl,
     enableCache |-> enableCache, cacheTtl |-> cacheTtl]

ResolveConfigs ==
    { ResolveConfig(Some("token"), Undefined, Undefined, Undefined, Undefined),
      ResolveConfig(Some("token"), Undefined, Undefined, Some(TRUE), Some(150)),
      ResolveConfig(Some("token"), Undefined, Undefined, Undefined, Some(0)),
      ResolveConfig(Some("token"), Undefined, Undefined, Some(FALSE), Undefined),
      ResolveConfig(Undefined, Undefined, Undefined, Undefined, Undefined),
      ResolveConfig(Undefined, Some("key"), Undefined, Undefined, Undefined),
      ResolveConfig(Undefined, Some("key"), Some("https://api.example"),
                    Undefined, Undefined) }

\* time that passes before a call is made
Delays == {1000, 150 * 1000, 150 * 1000 + 1, 5 * 60 * 1000 + 1}

BundleProduct(cents) ==
    [id |-> BundleId,
     variants |-> <<[id |-> "bv", price |-> Money(cents),
                     bundleComponents |->
                        Some(<<[product |-> [id |-> "p1", title |-> "Product 1"],
                                variant |-> Variant("v1", 1000),
                                quantity |-> 2]>>)]>>]

PlainProduct ==
    [id |-> BundleId,
     variants |-> <<[id |-> "plain", price |-> Money(3000),
                     bundleComponents |-> Undefined]>>]

\* data.data?.product of the storefront response
ResolveProducts ==
    {Undefined, Some(PlainProduct), Some(BundleProduct(1800)), Some(BundleProduct(1900))}

\* data.bundle of the backend response
BackendBundles ==
    {Undefined, parseStorefrontResponse(BundleProduct(1800)),
     parseStorefrontResponse(BundleProduct(1900))}

InitResolve ==
    /\ hookState = NoHook /\ started = <<>>
    /\ definition = NoDefinition
    /\ input = NoInput
    /\ config = NoConfig
    /\ lines = NotCalled
    /\ groups = NotCalled
    /\ validation = NotCalled
    /\ pc = "off" /\ requests = 0 /\ validated = FALSE /\ addResult = NotCalled
    /\ response = NotCalled
    /\ product = NoProduct /\ resolved = NotCalled /\ price = NotCalled
    /\ flags = NotCalled
    /\ invPc = "off" /\ checks = <<>> /\ data = Undefined /\ inventory = NotCalled
    /\ resPc = "idle"
    /\ cache = [definitions |-> [id \in BundleIds |-> Undefined],
                inventory |-> <<>>, prices |-> <<>>]
    /\ now = 0
    /\ call = NoCall
    /\ resolveResult = NotCalled

\* resolveBundle up to its first suspension: the cache lookup, the choice of
\* path, the token check of the direct path and the fetch.  requests counts
\* the requests of this call; a returned value is the definition as an
\* optional, since the backend path can return undefined.
ResolveBundle ==
    /\ resPc = "idle"
    /\ call.n < MaxCalls
    /\ \E cfg \in ResolveConfigs, id \in BundleIds, skip \in BOOLEAN, d \in Delays :
        LET t == now + d
            looksUp == CachingEnabled(cfg) /\ ~skip
            found == getFromCache(cache.definitions, id, t)
        IN /\ now' = t
           /\ config' = cfg
           /\ call' = [n |-> call.n + 1, bundleId |-> id, skipCache |-> skip,
                       found |-> cache.definitions[id]]
           /\ cache' = IF looksUp THEN [cache EXCEPT !.definitions = found.cache]
                       ELSE cache
           /\ IF looksUp /\ found.data # Null
              THEN /\ resolveResult' = Return(found.data)
                   /\ requests' = 0
                   /\ resPc' = "idle"
              ELSE IF ~UsesBackend(cfg) /\ TokenMissing(cfg)
              THEN /\ resolveResult' = Fault("INVALID_CONFIG",
                        "storefrontAccessToken is required when not using hosted backend")
                   /\ requests' = 0
                   /\ resPc' = "idle"
              ELSE /\ resolveResult' = NotCalled
                   /\ requests' = 1
                   /\ resPc' = "awaiting"
    /\ UNCHANGED <<hookVars, definition, input, readVars, inventoryVars, lineVars, validationVars,
                   pc, validated, addResult, response, priceVars>>

\* fetch or response.json() rejects: nothing catches it
ResolveFetchThrows ==
    /\ resPc = "awaiting"
    /\ resolveResult' = Throw("fetch failed")
    /\ resPc' = "idle"
    /\ UNCHANGED <<hookVars, sdkVars, readVars, inventoryVars, lineVars, validationVars, cartVars,
                   priceVars, cache, now, call>>

ResolveResponseNotOk ==
    /\ resPc = "awaiting"
    /\ \E status \in {404, 429, 500}, error \in {Undefined, Some("Unknown error")} :
        resolveResult' =
            IF UsesBackend(config) THEN parseApiError(status, error)
            ELSE Fault("NETWORK_ERROR", "Storefront API error: " \o String(status))
    /\ resPc' = "idle"
    /\ UNCHANGED <<hookVars, sdkVars, readVars, inventoryVars, lineVars, validationVars, cartVars,
                   priceVars, cache, now, call>>

ResolveGraphQLErrors ==
    /\ resPc = "awaiting"
    /\ ~UsesBackend(config)
    /\ \E errors \in {<<>>, <<"Throttled">>} :
        resolveResult' = Fault("UNKNOWN_ERROR",
                               IF Len(errors) > 0 THEN errors[1] ELSE "GraphQL error")
    /\ resPc' = "idle"
    /\ UNCHANGED <<hookVars, sdkVars, readVars, inventoryVars, lineVars, validationVars, cartVars,
                   priceVars, cache, now, call>>

\* the storefront answers: no product, a product that is not a bundle, or
\* a bundle, which is cached when caching is enabled
ResolveStorefrontResponse ==
    /\ resPc = "awaiting"
    /\ ~UsesBackend(config)
    /\ \E prod \in ResolveProducts :
        LET def == IF IsDefined(prod) THEN parseStorefrontResponse(Get(prod)) ELSE Null
        IN IF ~IsDefined(prod)
           THEN /\ resolveResult' = Fault("BUNDLE_NOT_FOUND", DefaultMessage("BUNDLE_NOT_FOUND"))
                /\ UNCHANGED cache
           ELSE IF def = Null
           THEN /\ resolveResult' = Fault("BUNDLE_NOT_FOUND", "Product is not a bundle")
                /\ UNCHANGED cache
           ELSE /\ resolveResult' = Return(def)
                /\ cache' = IF CachingEnabled(config)
                            THEN [cache EXCEPT !.definitions =
                                    setInCache(@, call.bundleId, def, now,
                                               EntryTtl(config))]
                            ELSE cache
    /\ resPc' = "idle"
    /\ UNCHANGED <<hookVars, sdkVars, readVars, inventoryVars, lineVars, validationVars, cartVars,
                   priceVars, now, call>>

\* the backend answers with data.bundle, which is returned and cached as it
\* is, undefined included
ResolveBackendResponse ==
    /\ resPc = "awaiting"
    /\ UsesBackend(config)
    /\ \E bundle \in BackendBundles :
        /\ resolveResult' = Return(bundle)
        /\ cache' = IF CachingEnabled(config)
                    THEN [cache EXCEPT !.definitions =
                            setInCache(@, call.bundleId, bundle, now, EntryTtl(config))]
                    ELSE cache
    /\ resPc' = "idle"
    /\ UNCHANGED <<hookVars, sdkVars, readVars, inventoryVars, lineVars, validationVars, cartVars,
                   priceVars, now, call>>

NextResolve ==
    \/ ResolveBundle
    \/ ResolveFetchThrows
    \/ ResolveResponseNotOk
    \/ ResolveGraphQLErrors
    \/ ResolveStorefrontResponse
    \/ ResolveBackendResponse

SpecResolve == InitResolve /\ [][NextResolve]_vars

----------------------------------------------------------------------------
(* Claims about resolveBundle and the cache *)

\* C17: once a resolveBundle call for an id has succeeded under a
\* configuration with caching enabled, a later call without skipCache, made
\* under such a configuration before the entry's TTL has elapsed, returns
\* the cached definition, issues no network request and leaves the entry as
\* it is.  The TTL of an entry is 5 minutes, or cacheTtl seconds when the
\* storing call's configuration has a positive cacheTtl.  A call with
\* skipCache whose configuration lets it reach the network issues exactly
\* one request whatever the cache holds and, when it succeeds with caching
\* enabled, replaces the entry with its result.
C17_CachedUntilExpiryUnlessSkipped ==
    (resPc = "idle" /\ call.n > 0) =>
        LET found == call.found
            fresh == /\ found # <<>>
                     /\ found[1].data # <<>>
                     /\ now - found[1].timestamp < found[1].ttl
            enabled == config.enableCache # <<FALSE>>
            reaches == \/ (config.apiKey # <<>> /\ config.apiUrl # <<>>)
                       \/ config.storefrontAccessToken = <<"token">>
            stored == cache.definitions[call.bundleId]
        IN /\ (enabled /\ ~call.skipCache /\ fresh)
                => /\ resolveResult = Return(found[1].data)
                   /\ requests = 0
                   /\ stored = found
           /\ (call.skipCache /\ reaches) => requests = 1
           /\ (requests = 1 /\ Returned(resolveResult) /\ enabled)
                => /\ stored # <<>>
                   /\ stored[1].data = resolveResult.value
                   /\ stored[1].timestamp = now
                   /\ config.cacheTtl = <<>> => stored[1].ttl = 300000
                   /\ (config.cacheTtl # <<>> /\ config.cacheTtl[1] > 0)
                        => stored[1].ttl = config.cacheTtl[1] * 1000

\* the second call comes 1 s after the first one stored a definition for
\* 150 s, and is answered from the cache
C17_Witness ==
    /\ resPc = "idle"
    /\ call.n = 2
    /\ ~call.skipCache
    /\ call.found # <<>>
    /\ call.found[1].ttl = 150000
    /\ now - call.found[1].timestamp = 1000
    /\ requests = 0
    /\ Returned(resolveResult)
    /\ resolveResult.value = call.found[1].data
    /\ resolveResult.value # <<>>

----------------------------------------------------------------------------
(* The three operations that talk to the storefront directly, each called
   on its own *)

InitDirect == Init \/ InitInventory \/ InitResolve

NextDirect == Next \/ NextInventory \/ NextResolve

SpecDirect == InitDirect /\ [][NextDirect]_vars

\* config.storefrontAccessToken is absent or empty
NoToken == config.storefrontAccessToken \in {<<>>, <<"">>}

\* addBundleToCart has reached executeCartMutation
ReachedCartMutation ==
    /\ pc \notin {"off", "idle"}
    /\ ~(validated /\ ~validation.value.valid)
    /\ Returned(lines)

\* checkInventoryFromStorefrontApi has been called
ReachedInventoryCheck == invPc \notin {"off", "idle"}

\* resolveBundle has been called, was not answered from the cache and does
\* not use the hosted backend
ReachedDirectResolve ==
    /\ resPc # "off" /\ call.n > 0
    /\ ~(config.apiKey # <<>> /\ config.apiUrl # <<>>)
    /\ ~(/\ config.enableCache # <<FALSE>> /\ ~call.skipCache
         /\ call.found # <<>>
         /\ call.found[1].data # <<>>
         /\ now - call.found[1].timestamp <= call.found[1].ttl)

\* C18 as stated: with the storefront access token missing, resolveBundle,
\* the inventory check and addBundleToCart on the direct storefront path
\* each fail with an INVALID_CONFIG fault, and no request is ever sent.
C18_MissingTokenFaults ==
    NoToken =>
        /\ ReachedDirectResolve
            => /\ resPc = "idle" /\ requests = 0
               /\ resolveResult.completion = "throw"
               /\ resolveResult.code = "INVALID_CONFIG"
        /\ ReachedInventoryCheck
            => /\ invPc = "rejected" /\ requests = 0
               /\ inventory.completion = "throw"
               /\ inventory.code = "INVALID_CONFIG"
        /\ ReachedCartMutation
            => /\ pc \in {"done", "rejected"} /\ requests = 0
               /\ addResult.completion = "throw"
               /\ addResult.code = "INVALID_CONFIG"

\* C18 amended: with the storefront access token missing, resolveBundle and
\* the inventory check on the direct storefront path reject with an
\* INVALID_CONFIG fault, and addBundleToCart returns a result with success
\* false whose error is the message of that fault, without a code; in all
\* three no request is ever sent.
C18_MissingTokenNoRequest ==
    NoToken =>
        /\ ReachedDirectResolve
            => /\ resPc = "idle" /\ requests = 0
               /\ resolveResult.completion = "throw"
               /\ resolveResult.code = "INVALID_CONFIG"
        /\ ReachedInventoryCheck
            => /\ invPc = "rejected" /\ requests = 0
               /\ inventory.completion = "throw"
               /\ inventory.code = "INVALID_CONFIG"
        /\ ReachedCartMutation
            => /\ pc = "done" /\ requests = 0
               /\ addResult.completion = "return"
               /\ ~addResult.value.success
               /\ addResult.value.error
                    = <<"storefrontAccessToken is required for cart operations">>
               /\ addResult.value.failedComponent = <<>>

\* addBundleToCart was called with an empty token and lines to send
C18_Witness ==
    /\ config.storefrontAccessToken = <<"">>
    /\ ReachedCartMutation
    /\ Len(lines.value) > 0
    /\ requests = 0
    /\ ~addResult.value.success

----------------------------------------------------------------------------
(* More claims about addBundleToCart *)

\* C19: when the mutation response carries user errors, addBundleToCart
\* returns success false with the message of the first user error.
\* failedComponent is set exactly when the second segment of that error's
\* field path parses (as parseInt parses) to an integer that indexes one of
\* the submitted lines; it then names the component product id and the
\* variant id of that line.  In every other case there is no failedComponent.
C19_UserErrorAttribution ==
    (/\ pc = "done" /\ Returned(response)
     /\ response.value # <<>>
     /\ response.value[1].userErrors # <<>>
     /\ Len(response.value[1].userErrors[1]) > 0)
        => LET firstError == response.value[1].userErrors[1][1]
               segment == IF firstError.field # <<>> /\ Len(firstError.field[1]) >= 2
                          THEN firstError.field[1][2] ELSE <<>>
               index == CASE segment = <<"0">> -> 0
                          [] segment = <<"1">> -> 1
                          [] segment = <<" ", "1", "x">> -> 1
                          [] segment = <<"1", "0">> -> 10
                          [] OTHER -> -1
               submitted == lines.value
               result == addResult.value
           IN /\ Returned(addResult)
              /\ ~result.success
              /\ result.error = <<firstError.message>>
              /\ IF index >= 0 /\ index < Len(submitted)
                 THEN /\ result.failedComponent # <<>>
                      /\ <<result.failedComponent[1].productId>>
                            = FindValue(submitted[index + 1].attributes,
                                        "_bundle_component_product_id")
                      /\ result.failedComponent[1].variantId
                            = submitted[index + 1].merchandiseId
                 ELSE result.failedComponent = <<>>

\* two lines were submitted and the first user error points at the second
C19_Witness ==
    /\ pc = "done" /\ Returned(response)
    /\ response.value # <<>>
    /\ response.value[1].userErrors # <<>>
    /\ Len(response.value[1].userErrors[1]) > 0
    /\ response.value[1].userErrors[1][1].field
            = <<(<<SegLines, <<"1">>, SegMerchandise>>)>>
    /\ Len(lines.value) = 2
    /\ addResult.value.failedComponent # <<>>
    /\ addResult.value.failedComponent[1].productId = "p2"
    /\ addResult.value.failedComponent[1].variantId = "v2"

----------------------------------------------------------------------------
(* Reading a cart back: isBundleLine on each of its lines, and
   groupCartLinesByBundle on all of them *)

MaxAttributes == 2
MaxReadLines == 1

\* attributes a line of any cart can carry
ReadAttributes ==
    { [key |-> "_bundle_parent", value |-> "true"],
      [key |-> "_bundle_parent", value |-> "false"],
      [key |-> "_bundle_parent", value |-> "TRUE"],
      [key |-> "_bundle_product_id", value |-> BundleId],
      [key |-> "_bundle_component_of", value |-> "true"],
      [key |-> "gift_note", value |-> "true"] }

ReadLines ==
    { [id |-> "gid://shopify/CartLine/1", quantity |-> 1, attributes |-> a] :
        a \in SeqsOf(ReadAttributes, 0, MaxAttributes) }

InitCartRead ==
    /\ hookState = NoHook /\ started = <<>>
    /\ definition = NoDefinition
    /\ config = NoConfig
    /\ input = NoInput
    /\ lines \in { Return(ls) : ls \in SeqsOf(ReadLines, 1, MaxReadLines) }
    /\ groups = NotCalled
    /\ validation = NotCalled
    /\ pc = "off" /\ requests = 0 /\ validated = FALSE /\ addResult = NotCalled
    /\ response = NotCalled
    /\ OtherCallsIdle
    /\ product = NoProduct /\ resolved = NotCalled /\ price = NotCalled

\* isBundleLine is called on every line of the cart
IsBundleLine ==
    /\ Returned(lines)
    /\ flags = NotCalled
    /\ flags' = Return([i \in 1..Len(lines.value) |-> isBundleLine(lines.value[i])])
    /\ UNCHANGED <<hookVars, sdkVars, inventoryVars, resolveVars, lineVars, validationVars, cartVars,
                   priceVars>>

NextCartRead == IsBundleLine \/ GroupCartLinesByBundle

SpecCartRead == InitCartRead /\ [][NextCartRead]_vars

\* C20: isBundleLine(line) is true exactly when some attribute of the line
\* has the key _bundle_parent and the value "true"; a line without such an
\* attribute, whatever else it carries, is not a bundle line.
C20_BundleLineIffParentTrue ==
    Returned(flags) =>
        \A i \in 1..Len(lines.value) :
            flags.value[i]
                <=> [key |-> "_bundle_parent", value |-> "true"]
                        \in { lines.value[i].attributes[j] :
                                j \in 1..Len(lines.value[i].attributes) }

\* a line tagged _bundle_parent "false" that also carries a "true" under
\* another key is not a bundle line
C20_Witness ==
    /\ Returned(flags)
    /\ lines.value[1].attributes
        = << [key |-> "_bundle_parent", value |-> "false"],
             [key |-> "gift_note", value |-> "true"] >>
    /\ flags.value = <<FALSE>>

----------------------------------------------------------------------------
(* Grouping a cart of several lines, some of them tagged for two bundles *)

MaxGroupLines == 3

OtherBundleId == "gid://shopify/Product/200"

ParentTag(value) == [key |-> "_bundle_parent", value |-> value]
ProductIdTag(value) == [key |-> "_bundle_product_id", value |-> value]

\* attribute lists of cart lines: tagged for either bundle, without the
\* parent tag or with a false one, without a bundle id or with an empty one,
\* with two bundle ids, untagged
GroupTags ==
    { <<ParentTag("true"), ProductIdTag(BundleId)>>,
      <<ParentTag("true"), ProductIdTag(OtherBundleId)>>,
      <<ProductIdTag(BundleId)>>,
      <<ParentTag("false"), ProductIdTag(BundleId)>>,
      <<ParentTag("true")>>,
      <<ParentTag("true"), ProductIdTag("")>>,
      <<ParentTag("true"), ProductIdTag(BundleId), ProductIdTag(OtherBundleId)>>,
      <<[key |-> "gift_note", value |-> "true"]>> }

\* the lines of a cart, each with its own id
CartOf(tags) ==
    [i \in 1..Len(tags) |->
        [id |-> "gid://shopify/CartLine/" \o String(i), quantity |-> 1,
         attributes |-> tags[i]]]

InitCartGroups ==
    /\ hookState = NoHook /\ started = <<>>
    /\ definition = NoDefinition
    /\ config = NoConfig
    /\ input = NoInput
    /\ lines \in { Return(CartOf(tags)) : tags \in SeqsOf(GroupTags, 0, MaxGroupLines) }
    /\ groups = NotCalled
    /\ validation = NotCalled
    /\ pc = "off" /\ requests = 0 /\ validated = FALSE /\ addResult = NotCalled
    /\ response = NotCalled
    /\ OtherCallsIdle
    /\ product = NoProduct /\ resolved = NotCalled /\ price = NotCalled

SpecCartGroups == InitCartGroups /\ [][NextCartRead]_vars

\* the bundle id a line is tagged with: the value of its last
\* _bundle_product_id attribute, when the line has a "true" parent tag and
\* that value is not empty
TaggedFor(line) ==
    LET a == line.attributes
        ids == { j \in 1..Len(a) : a[j].key = "_bundle_product_id" }
        last == CHOOSE j \in ids : \A k \in ids : k <= j
    IN IF /\ \E j \in 1..Len(a) : a[j] = [key |-> "_bundle_parent", value |-> "true"]
          /\ ids # {}
          /\ a[last].value # ""
       THEN <<a[last].value>>
       ELSE <<>>

\* C21: groupCartLinesByBundle places a line in the group of bundle id X
\* exactly when the line passes isBundleLine and its bundle-product-id
\* attribute is X.  There is one group per such X; a group holds its lines
\* in their input order, each once; every other line (no "true" parent tag,
\* no bundle id, an empty bundle id) is in no group.
C21_GroupsPartitionBundleLines ==
    Returned(groups) =>
        LET gs == groups.value
            ls == lines.value
        IN /\ \A g, h \in 1..Len(gs) :
                gs[g].bundleProductId = gs[h].bundleProductId => g = h
           /\ { <<gs[g].bundleProductId>> : g \in 1..Len(gs) }
                = { TaggedFor(ls[i]) : i \in 1..Len(ls) } \ {<<>>}
           /\ \A g \in 1..Len(gs) :
                gs[g].lines
                    = SelectSeq(ls, LAMBDA l : TaggedFor(l) = <<gs[g].bundleProductId>>)

\* a cart of three lines: the first and the third for one bundle, with a
\* line of another bundle between them
C21_Witness ==
    /\ Returned(groups)
    /\ Len(lines.value) = 3
    /\ Len(groups.value) = 2
    /\ groups.value[1].bundleProductId = BundleId
    /\ groups.value[1].lines = <<lines.value[1], lines.value[3]>>
    /\ groups.value[2].bundleProductId = OtherBundleId
    /\ groups.value[2].lines = <<lines.value[2]>>

----------------------------------------------------------------------------
(* More claims about validateBundleSelection *)

\* the component a selection is checked against: the first one listing its
\* product, 0 if there is none
SelectedComponentIndex(i) ==
    LET selections == input.selectedComponents[1]
        components == definition.components
        Matches == { k \in 1..Len(components) :
                        components[k].productId = selections[i].productId }
    IN IF Matches = {} THEN 0
       ELSE CHOOSE k \in Matches : \A j \in Matches : k <= j

\* every check the selection list violates, by its place in the order of the
\* checks: 1 and 2 are the checks of the total, 10 * i + 1 .. 10 * i + 4 the
\* four checks of the i-th selection.  A bound that is absent or 0 is not a
\* check.
ViolatedChecks ==
    LET selections == input.selectedComponents[1]
        components == definition.components
        Has(bound) == bound # <<>> /\ bound[1] # 0
        ComponentOf(i) == components[SelectedComponentIndex(i)]
        Known == { j \in 1..Len(selections) : SelectedComponentIndex(j) # 0 }
    IN (IF Has(definition.minSelections) /\ Total < definition.minSelections[1]
        THEN {1} ELSE {})
       \cup (IF Has(definition.maxSelections) /\ Total > definition.maxSelections[1]
             THEN {2} ELSE {})
       \cup { 10 * i + 1 : i \in (1..Len(selections)) \ Known }
       \cup { 10 * i + 2 :
                i \in { j \in Known :
                        \A n \in 1..Len(ComponentOf(j).variants) :
                            ComponentOf(j).variants[n].id # selections[j].variantId } }
       \cup { 10 * i + 3 :
                i \in { j \in Known :
                        /\ ComponentOf(j).allowQuantitySelection
                        /\ Has(ComponentOf(j).minQuantity)
                        /\ selections[j].quantity < ComponentOf(j).minQuantity[1] } }
       \cup { 10 * i + 4 :
                i \in { j \in Known :
                        /\ ComponentOf(j).allowQuantitySelection
                        /\ Has(ComponentOf(j).maxQuantity)
                        /\ selections[j].quantity > ComponentOf(j).maxQuantity[1] } }

\* the error a violated check is reported with
ErrorOfCheck(place) ==
    LET i == place \div 10
        selections == input.selectedComponents[1]
        component == definition.components[SelectedComponentIndex(i)]
    IN CASE place = 1 -> NamesAtLeast(definition.minSelections[1])
         [] place = 2 -> NamesAtMost(definition.maxSelections[1])
         [] place % 10 = 1 /\ i > 0 ->
                "Invalid product selection: " \o selections[i].productId
         [] place % 10 = 2 /\ i > 0 ->
                "Invalid variant selection for " \o component.productTitle
         [] place % 10 = 3 /\ i > 0 ->
                "Minimum quantity for " \o component.productTitle
                    \o " is " \o String(component.minQuantity[1])
         [] place % 10 = 4 /\ i > 0 ->
                "Maximum quantity for " \o component.productTitle
                    \o " is " \o String(component.maxQuantity[1])

C23_BundlePriceByDiscountType ==
    (/\ Returned(price)
     /\ definition.pricing.discountType \in {"percentage", "fixed_amount", "custom"})
        => LET pricing == definition.pricing
               original == price.value.originalPrice.amount
               discountValue == IF pricing.discountValue = <<>> THEN 0
                                ELSE pricing.discountValue[1]
               before ==
                    CASE pricing.discountType = "percentage" ->
                            original * (100 - discountValue \div 10000)
                      [] pricing.discountType = "fixed_amount" ->
                            original * 100 - discountValue
                      [] OTHER ->
                            IF pricing.bundlePrice # <<>>
                            THEN pricing.bundlePrice[1].amount * 100
                            ELSE original * 100
               floored == IF before < 0 THEN 0 ELSE before
               returned == price.value.bundlePrice.amount * 100
           IN /\ returned - floored <= 50
              /\ floored - returned <= 50

\* 10 percent off components that cost $39.99
C23_Witness ==
    /\ Returned(price)
    /\ definition.pricing.discountType = "percentage"
    /\ definition.pricing.discountValue = <<100000>>
    /\ price.value.originalPrice.amount = 3999
    /\ price.value.bundlePrice.amount = 3599

----------------------------------------------------------------------------
(* utils/cache: the three maps of memoryCache and their keys.  A key is the
   sequence of its characters; bundle ids are product ids cut down to their
   last digits, so that one id can be the beginning of another. *)

\* the characters of the strings that go into a key
Chars(s) ==
    CASE s = "1" -> <<"1">>
      [] s = "10" -> <<"1", "0">>
      [] s = "v1" -> <<"v", "1">>
      [] s = "v2" -> <<"v", "2">>

\* the decimal digits of n >= 0
RECURSIVE Characters(_)
Characters(n) ==
    IF n < 10 THEN <<Digit(n)>> ELSE Characters(n \div 10) \o <<Digit(n % 10)>>

\* UTF-16 code unit of a character of a key
CharCode(ch) ==
    CASE ch = "," -> 44 [] ch = ":" -> 58 [] ch = "v" -> 118 [] ch = "|" -> 124
      [] OTHER -> 48 + DigitValue(ch)

\* a < b in the order of Array.prototype.sort without a comparator
RECURSIVE Before(_, _)
Before(a, b) ==
    IF b = <<>> THEN FALSE
    ELSE IF a = <<>> THEN TRUE
    ELSE IF Head(a) = Head(b) THEN Before(Tail(a), Tail(b))
    ELSE CharCode(Head(a)) < CharCode(Head(b))

RECURSIVE InsertSorted(_, _)
InsertSorted(x, sorted) ==
    IF sorted = <<>> THEN <<x>>
    ELSE IF Before(x, Head(sorted)) THEN <<x>> \o sorted
    ELSE <<Head(sorted)>> \o InsertSorted(x, Tail(sorted))

RECURSIVE Sort(_)
Sort(strings) ==
    IF strings = <<>> THEN <<>>
    ELSE InsertSorted(Head(strings), Sort(Tail(strings)))

RECURSIVE Join(_, _)
Join(strings, separator) ==
    IF strings = <<>> THEN <<>>
    ELSE IF Len(strings) = 1 THEN strings[1]
    ELSE strings[1] \o separator \o Join(Tail(strings), separator)

\* String.prototype.startsWith
startsWith(s, prefix) ==
    Len(prefix) <= Len(s) /\ SubSeq(s, 1, Len(prefix)) = prefix

\* getInventoryCacheKey
getInventoryCacheKey(bundleId, selections) ==
    IF ~IsDefined(selections) \/ Len(Get(selections)) = 0 THEN Chars(bundleId)
    ELSE LET pairs == [i \in 1..Len(Get(selections)) |->
                        Chars(Get(selections)[i].variantId) \o <<":">>
                            \o Characters(Get(selections)[i].quantity)]
         IN Chars(bundleId) \o <<"|">> \o Join(Sort(pairs), <<",">>)

\* getPriceCacheKey
getPriceCacheKey(bundleId, selections) ==
    IF ~IsDefined(selections) \/ Len(Get(selections)) = 0 THEN Chars(bundleId)
    ELSE LET pairs == [i \in 1..Len(Get(selections)) |->
                        Chars(Get(selections)[i].variantId) \o <<":">>
                            \o Characters(Get(selections)[i].quantity)]
         IN Chars(bundleId) \o <<"|">> \o Join(Sort(pairs), <<",">>)

\* Object.keys(map).forEach: delete every key that starts with bundleId
DeleteStartingWith(map, bundleId) ==
    [key \in DOMAIN map |->
        IF startsWith(key, Chars(bundleId)) THEN Undefined ELSE map[key]]

\* clearBundleCache
clearBundleCache(c, bundleId) ==
    [definitions |-> [c.definitions EXCEPT ![Chars(bundleId)] = Undefined],
     inventory |-> DeleteStartingWith(c.inventory, bundleId),
     prices |-> DeleteStartingWith(c.prices, bundleId)]

\* CACHE_TTL.inventory and CACHE_TTL.price
InventoryTtl == 30 * 1000
PriceTtl == 60 * 1000

----------------------------------------------------------------------------
(* Specification of the cache module and of the two operations that read
   and fill its inventory and price maps, each given a definition and a
   configuration of the direct storefront path *)

MaxOps == 3

CacheBundleIds == {"1", "10"}

CacheSelections ==
    { Undefined, Some(<<>>),
      Some(<<Selection("p1", "v2", 1), Selection("p1", "v1", 2)>>) }

DefinitionKeys == { Chars(id) : id \in CacheBundleIds }
SelectionKeys ==
    { getInventoryCacheKey(id, s) : id \in CacheBundleIds, s \in CacheSelections }

EmptyCache ==
    [definitions |-> [key \in DefinitionKeys |-> Undefined],
     inventory |-> [key \in SelectionKeys |-> Undefined],
     prices |-> [key \in SelectionKeys |-> Undefined]]

\* the definition of a bundle: one product in two variants, 10 percent off
DefinitionOf(id) ==
    [Definition("mix_and_match",
                <<Component("p1", <<Variant("v1", 1000), Variant("v2", 1500)>>,
                            Some("v1"), 1, TRUE, Undefined, Undefined)>>,
                Pricing("percentage", Some(Number(10)), Undefined),
                Undefined, Undefined)
     EXCEPT !.id = id]

\* data.data?.nodes of the inventory response: everything in stock, or the
\* first variant sold out
CacheResponseNodes ==
    { <<Node("v1", TRUE, QuantityOf(6)), Node("v2", TRUE, QuantityOf(6))>>,
      <<Node("v1", FALSE, QuantityOf(0)), Node("v2", TRUE, QuantityOf(6))>> }

\* time that passes between two operations
Ticks == {30 * 1000, 30 * 1000 + 1, 5 * 60 * 1000 + 1}

\* the last operation on the cache: what was called, the key it used and
\* the entry under that key just before
Op(n, op, bundleId, key, skipCache, found) ==
    [n |-> n, op |-> op, bundleId |-> bundleId, key |-> key,
     skipCache |-> skipCache, found |-> found]

InitCache ==
    /\ hookState = NoHook /\ started = <<>>
    /\ definition = NoDefinition
    /\ input = NoInput
    /\ config = [storefrontAccessToken |-> Some("token")]
    /\ lines = NotCalled
    /\ groups = NotCalled
    /\ validation = NotCalled
    /\ pc = "off" /\ requests = 0 /\ validated = FALSE /\ addResult = NotCalled
    /\ response = NotCalled
    /\ product = NoProduct /\ resolved = NotCalled /\ price = NotCalled
    /\ flags = NotCalled
    /\ invPc = "idle" /\ checks = <<>> /\ data = Undefined /\ inventory = NotCalled
    /\ resPc = "off"
    /\ cache = EmptyCache
    /\ now = 0
    /\ call = Op(0, "none", "", <<>>, FALSE, Undefined)
    /\ resolveResult = NotCalled

\* cacheDefinition(bundleId, definition)
CacheDefinition ==
    /\ invPc \in {"idle", "awaiting"}
    /\ call.n < MaxOps
    /\ \E id \in CacheBundleIds :
        /\ cache' = [cache EXCEPT !.definitions =
                        setInCache(@, Chars(id), Some(DefinitionOf(id)), now,
                                   DefinitionTtl)]
        /\ call' = Op(call.n + 1, "cacheDefinition", id, Chars(id), FALSE,
                      cache.definitions[Chars(id)])
    /\ UNCHANGED <<hookVars, sdkVars, readVars, inventoryVars, lineVars, validationVars, cartVars,
                   priceVars, resPc, now, resolveResult>>

\* getCachedDefinition(bundleId)
GetCachedDefinition ==
    /\ invPc \in {"idle", "awaiting"}
    /\ call.n < MaxOps
    /\ \E id \in CacheBundleIds :
        LET read == getFromCache(cache.definitions, Chars(id), now) IN
        /\ cache' = [cache EXCEPT !.definitions = read.cache]
        /\ resolveResult' = Return(read.data)
        /\ call' = Op(call.n + 1, "getCachedDefinition", id, Chars(id), FALSE,
                      cache.definitions[Chars(id)])
    /\ UNCHANGED <<hookVars, sdkVars, readVars, inventoryVars, lineVars, validationVars, cartVars,
                   priceVars, resPc, now>>

\* calculateBundlePrice(definition, config, {selectedComponents, skipCache}):
\* nothing is awaited on this path
CalculateBundlePrice ==
    /\ invPc \in {"idle", "awaiting"}
    /\ call.n < MaxOps
    /\ \E id \in CacheBundleIds, selectedComponents \in CacheSelections,
          skipCache \in BOOLEAN :
        LET key == getPriceCacheKey(id, selectedComponents)
            read == getFromCache(cache.prices, key, now)
            priceResult == calculatePriceFromDefinition(DefinitionOf(id),
                                                        selectedComponents)
        IN /\ call' = Op(call.n + 1, "calculateBundlePrice", id, key, skipCache,
                         cache.prices[key])
           /\ IF ~skipCache /\ read.data # Null
              THEN /\ price' = Return(Get(read.data))
                   /\ cache' = [cache EXCEPT !.prices = read.cache]
              ELSE /\ price' = Return(priceResult)
                   /\ cache' = [cache EXCEPT !.prices =
                                    setInCache(IF skipCache THEN @ ELSE read.cache,
                                               key, Some(priceResult), now, PriceTtl)]
    /\ UNCHANGED <<hookVars, sdkVars, readVars, inventoryVars, lineVars, validationVars, cartVars,
                   product, resolved, resPc, now, resolveResult>>

\* checkBundleInventory(definition, config, {selectedComponents, skipCache})
\* up to its first suspension: the cache lookup and the fetch
CheckBundleInventory ==
    /\ invPc = "idle"
    /\ call.n < MaxOps
    /\ \E id \in CacheBundleIds, selectedComponents \in CacheSelections,
          skipCache \in BOOLEAN :
        LET key == getInventoryCacheKey(id, selectedComponents)
            read == getFromCache(cache.inventory, key, now)
        IN /\ call' = Op(call.n + 1, "checkBundleInventory", id, key, skipCache,
                         cache.inventory[key])
           /\ definition' = DefinitionOf(id)
           /\ input' = AddBundleInput(selectedComponents, Undefined, Undefined, Undefined)
           /\ cache' = IF skipCache THEN cache
                       ELSE [cache EXCEPT !.inventory = read.cache]
           /\ IF ~skipCache /\ read.data # Null
              THEN /\ inventory' = Return(Get(read.data))
                   /\ UNCHANGED <<invPc, checks>>
              ELSE /\ inventory' = NotCalled
                   /\ checks' = variantsToCheck(DefinitionOf(id), selectedComponents)
                   /\ invPc' = "awaiting"
    /\ UNCHANGED <<hookVars, config, readVars, data, lineVars, validationVars, cartVars,
                   priceVars, resPc, now, resolveResult>>

\* the inventory response arrives: the result is cached under the key of
\* the call and returned
BundleInventoryResponse ==
    /\ invPc = "awaiting"
    /\ resPc = "off"
    /\ \E responseNodes \in CacheResponseNodes :
        LET result == BundleInventoryOf(checks, responseNodes)
            key == getInventoryCacheKey(definition.id, input.selectedComponents)
        IN /\ data' = Some(responseNodes)
           /\ inventory' = Return(result)
           /\ cache' = [cache EXCEPT !.inventory =
                            setInCache(@, key, Some(result), now, InventoryTtl)]
    /\ invPc' = "idle"
    /\ UNCHANGED <<hookVars, sdkVars, readVars, checks, lineVars, validationVars, cartVars,
                   priceVars, resPc, now, call, resolveResult>>

\* the inventory request fails: nothing is cached
BundleInventoryFails ==
    /\ invPc = "awaiting"
    /\ resPc = "off"
    /\ inventory' = Throw("fetch failed")
    /\ invPc' = "idle"
    /\ UNCHANGED <<hookVars, sdkVars, readVars, checks, data, lineVars, validationVars, cartVars,
                   priceVars, resolveVars>>

\* clearBundleCache(bundleId)
ClearBundleCache ==
    /\ invPc \in {"idle", "awaiting"}
    /\ call.n < MaxOps
    /\ \E id \in CacheBundleIds :
        /\ cache' = clearBundleCache(cache, id)
        /\ call' = Op(call.n + 1, "clearBundleCache", id, Chars(id), FALSE,
                      Undefined)
    /\ UNCHANGED <<hookVars, sdkVars, readVars, inventoryVars, lineVars, validationVars, cartVars,
                   priceVars, resPc, now, resolveResult>>

\* clearAllCache()
ClearAllCache ==
    /\ invPc \in {"idle", "awaiting"}
    /\ call.n < MaxOps
    /\ cache' = EmptyCache
    /\ call' = Op(call.n + 1, "clearAllCache", "", <<>>, FALSE, Undefined)
    /\ UNCHANGED <<hookVars, sdkVars, readVars, inventoryVars, lineVars, validationVars, cartVars,
                   priceVars, resPc, now, resolveResult>>

\* time passes
Tick ==
    /\ invPc \in {"idle", "awaiting"}
    /\ resPc = "off"
    /\ call.n < MaxOps
    /\ \E d \in Ticks : now' = now + d
    /\ call' = Op(call.n + 1, "tick", "", <<>>, FALSE, Undefined)
    /\ UNCHANGED <<hookVars, sdkVars, readVars, inventoryVars, lineVars, validationVars, cartVars,
                   priceVars, resPc, cache, resolveResult>>

NextCache ==
    \/ CacheDefinition
    \/ GetCachedDefinition
    \/ CalculateBundlePrice
    \/ CheckBundleInventory
    \/ BundleInventoryResponse
    \/ BundleInventoryFails
    \/ ClearBundleCache
    \/ ClearAllCache
    \/ Tick

SpecCache == InitCache /\ [][NextCache]_vars

\* the cache module together with resolveBundle: every reader of the cache
InitServing == InitCache \/ InitResolve
NextServing == NextCache \/ NextResolve
SpecServing == InitServing /\ [][NextServing]_vars

----------------------------------------------------------------------------
(* Claims about the cache *)

\* the entry a finished read found under its key, if the read looked it up
FoundByRead ==
    IF resPc = "off"
    THEN IF /\ call.op \in {"getCachedDefinition", "calculateBundlePrice",
                            "checkBundleInventory"}
            /\ ~call.skipCache
         THEN call.found ELSE Undefined
    ELSE IF call.n > 0 /\ ~call.skipCache /\ config.enableCache # <<FALSE>>
         THEN call.found ELSE Undefined

\* the entry now stored under the key of the last read
StoredForRead ==
    IF resPc # "off" THEN cache.definitions[call.bundleId]
    ELSE CASE call.op = "getCachedDefinition" -> cache.definitions[call.key]
           [] call.op = "calculateBundlePrice" -> cache.prices[call.key]
           [] call.op = "checkBundleInventory" -> cache.inventory[call.key]
           [] OTHER -> Undefined

\* what the last read completed with
ReadResult ==
    IF resPc # "off" THEN resolveResult
    ELSE CASE call.op = "getCachedDefinition" -> resolveResult
           [] call.op = "calculateBundlePrice" -> price
           [] call.op = "checkBundleInventory" -> inventory
           [] OTHER -> NotCalled

\* C24: a read of the cache (getCachedDefinition, and the lookups of
\* resolveBundle, checkBundleInventory and calculateBundlePrice) that finds
\* an entry under its key returns the entry's data and keeps the entry when
\* now - timestamp <= ttl.  When now - timestamp > ttl the entry is deleted
\* and its data is not served: the raw read returns null, and the three
\* operations go on to obtain the value anew, so that whatever they return
\* is stored under the key with the current time as its timestamp.
C24_ExpiredEntryNeverServed ==
    (FoundByRead # <<>> /\ FoundByRead[1].data # <<>>) =>
        LET entry == FoundByRead[1]
            age == now - entry.timestamp
            raw == resPc = "off" /\ call.op = "getCachedDefinition"
        IN /\ age <= entry.ttl
                => /\ StoredForRead = FoundByRead
                   /\ ReadResult = Return(IF raw \/ resPc # "off" THEN entry.data
                                          ELSE entry.data[1])
           /\ age > entry.ttl
                => /\ StoredForRead # FoundByRead
                   /\ raw => (ReadResult = Return(<<>>) /\ StoredForRead = <<>>)
                   /\ (~raw /\ Returned(ReadResult) /\ StoredForRead # <<>>)
                        => StoredForRead[1].timestamp = now
                   /\ (~raw /\ resPc = "off" /\ Returned(ReadResult))
                        => /\ StoredForRead # <<>>
                           /\ StoredForRead[1].data = <<ReadResult.value>>

\* checkBundleInventory finds an inventory cached 30001 ms ago and asks the
\* storefront again
C24_Witness ==
    /\ resPc = "off"
    /\ call.op = "checkBundleInventory"
    /\ ~call.skipCache
    /\ call.found # <<>>
    /\ now - call.found[1].timestamp = 30001
    /\ invPc = "awaiting"
    /\ cache.inventory[call.key] = <<>>

\* the bundle whose entry a key of the inventory or price map names: the
\* key is the bundle id, or the bundle id, a bar and a selection signature
KeyOf(key, bundleId) ==
    \/ key = Chars(bundleId)
    \/ startsWith(key, Chars(bundleId) \o <<"|">>)

\* C30: after clearBundleCache(B) the cache holds no definition of B and no
\* inventory or price entry of B under any selection signature, and every
\* entry of any other bundle id is as it was before the call.
C30_ClearsOneBundleOnly ==
    [][(call'.n = call.n + 1 /\ call'.op = "clearBundleCache") =>
        LET B == call'.bundleId IN
        /\ cache'.definitions[Chars(B)] = <<>>
        /\ \A key \in SelectionKeys :
            KeyOf(key, B) => (cache'.inventory[key] = <<>> /\ cache'.prices[key] = <<>>)
        /\ \A other \in CacheBundleIds \ {B} :
            /\ cache'.definitions[Chars(other)] = cache.definitions[Chars(other)]
            /\ \A key \in SelectionKeys :
                 KeyOf(key, other)
                    => /\ cache'.inventory[key] = cache.inventory[key]
                       /\ cache'.prices[key] = cache.prices[key]]_vars

----------------------------------------------------------------------------
(* hooks: useBundleCart, useBundlePrice, useBundleInventory and
   useBundleDefinition.  Each keeps its flags and its data in useState
   cells and starts asynchronous calls of the SDK; a call that was started
   settles later, in any order with the others, and then writes the cells.
   The inputs of the hooks (definition, bundleId) are present. *)

MaxStarted == 3

LoadingHooks == {"useBundlePrice", "useBundleInventory", "useBundleDefinition"}

\* what the n-th call resolves with
ResultOf(n) == [request |-> n]

\* the calls that have not settled
InFlight == { n \in 1..Len(started) : started[n].outcome = "pending" }

\* getUserMessage(err) for a BundleBridgeError
getUserMessage(err) == err.message

\* what a call of the SDK rejects with
Rejections == { Fault("NETWORK_ERROR", "Network error. Please check your connection.") }

\* the cells after the first render: isAdding and isLoading are false,
\* except that useBundleDefinition starts with isLoading = !initialData && !skip
\* and with initialData as its definition
InitialHookStates ==
    { [hook |-> "useBundleCart", isAdding |-> FALSE, isLoading |-> FALSE,
       error |-> Undefined, data |-> Null] }
    \cup { [hook |-> h, isAdding |-> FALSE, isLoading |-> FALSE,
            error |-> Undefined, data |-> Null] :
            h \in {"useBundlePrice", "useBundleInventory"} }
    \cup { [hook |-> "useBundleDefinition", isAdding |-> FALSE,
            isLoading |-> ~IsDefined(initialData) /\ ~skip,
            error |-> Undefined, data |-> initialData] :
            initialData \in {Null, Some(ResultOf(0))}, skip \in BOOLEAN }

InitHooks ==
    /\ hookState \in InitialHookStates
    /\ started = <<>>
    /\ definition = NoDefinition
    /\ config = NoConfig
    /\ input = NoInput
    /\ lines = NotCalled
    /\ groups = NotCalled
    /\ validation = NotCalled
    /\ pc = "off" /\ requests = 0 /\ validated = FALSE /\ addResult = NotCalled
    /\ response = NotCalled
    /\ OtherCallsIdle
    /\ product = NoProduct /\ resolved = NotCalled /\ price = NotCalled

\* addBundle(definition, options) up to its await
AddBundle ==
    /\ hookState.hook = "useBundleCart"
    /\ Len(started) < MaxStarted
    /\ hookState' = [hookState EXCEPT !.isAdding = TRUE, !.error = Undefined]
    /\ started' = Append(started, [by |-> "addBundle", outcome |-> "pending"])
    /\ UNCHANGED <<sdkVars, readVars, inventoryVars, resolveVars, lineVars,
                   validationVars, cartVars, priceVars>>

\* addBundleToCart settles: with a result that succeeded, with a result
\* that failed, or by rejecting
AddBundleSettles ==
    /\ hookState.hook = "useBundleCart"
    /\ \E n \in InFlight, outcome \in {"success", "failure", "rejected"},
          resultError \in {Undefined, Some("Cart not found")}, err \in Rejections :
        /\ started' = [started EXCEPT ![n].outcome = outcome]
        /\ hookState' =
            [hookState EXCEPT
                !.error = CASE outcome = "success" -> @
                            [] outcome = "failure" ->
                                 IF IsDefined(resultError) THEN resultError
                                 ELSE Some("Failed to add bundle to cart")
                            [] outcome = "rejected" -> Some(getUserMessage(err)),
                !.isAdding = FALSE]
    /\ UNCHANGED <<sdkVars, readVars, inventoryVars, resolveVars, lineVars,
                   validationVars, cartVars, priceVars>>

\* clearError()
ClearError ==
    /\ hookState.hook = "useBundleCart"
    /\ hookState' = [hookState EXCEPT !.error = Undefined]
    /\ UNCHANGED <<started, sdkVars, readVars, inventoryVars, resolveVars, lineVars,
                   validationVars, cartVars, priceVars>>

\* the effect runs calculatePrice, fetchInventory or fetchDefinition because
\* the inputs of the hook changed: the call up to its await
Fetch ==
    /\ hookState.hook \in LoadingHooks
    /\ Len(started) < MaxStarted
    /\ hookState' = [hookState EXCEPT !.isLoading = TRUE, !.error = Undefined]
    /\ started' = Append(started, [by |-> "effect", outcome |-> "pending"])
    /\ UNCHANGED <<sdkVars, readVars, inventoryVars, resolveVars, lineVars,
                   validationVars, cartVars, priceVars>>

\* recalculate() or refetch(): the call with skipCache, up to its await
Refetch ==
    /\ hookState.hook \in LoadingHooks
    /\ Len(started) < MaxStarted
    /\ hookState' = [hookState EXCEPT !.isLoading = TRUE, !.error = Undefined]
    /\ started' = Append(started, [by |-> "refetch", outcome |-> "pending"])
    /\ UNCHANGED <<sdkVars, readVars, inventoryVars, resolveVars, lineVars,
                   validationVars, cartVars, priceVars>>

\* a call of calculateBundlePrice, checkBundleInventory or resolveBundle
\* settles: the rest of the function that awaited it runs
FetchSettles ==
    /\ hookState.hook \in LoadingHooks
    /\ \E n \in InFlight, outcome \in {"resolved", "rejected"}, err \in Rejections :
        /\ started' = [started EXCEPT ![n].outcome = outcome]
        /\ hookState' =
            IF outcome = "resolved"
            THEN [hookState EXCEPT !.data = Some(ResultOf(n)), !.isLoading = FALSE]
            ELSE [hookState EXCEPT
                    !.error = Some(getUserMessage(err)),
                    !.data = IF started[n].by = "effect" THEN Null ELSE @,
                    !.isLoading = FALSE]
    /\ UNCHANGED <<sdkVars, readVars, inventoryVars, resolveVars, lineVars,
                   validationVars, cartVars, priceVars>>

NextHooks ==
    \/ AddBundle
    \/ AddBundleSettles
    \/ ClearError
    \/ Fetch
    \/ Refetch
    \/ FetchSettles

SpecHooks == InitHooks /\ [][NextHooks]_vars

----------------------------------------------------------------------------
(* Claims about the hooks *)

\* C25: in useBundleCart, isAdding is true exactly while at least one
\* addBundle call is in progress: it is true when calls overlap and one of
\* them is still awaiting, and false once every call has finished.
C25_IsAddingWhileAnyCallInProgress ==
    hookState.hook = "useBundleCart" => (hookState.isAdding <=> InFlight # {})

\* C29: in useBundlePrice, useBundleInventory and useBundleDefinition,
\* isLoading is false only when no call is in flight, and when every call
\* has settled and the most recently started one resolved, the data of the
\* hook is the result of that call, whatever order the calls settled in.
C29_LatestRequestWins ==
    hookState.hook \in LoadingHooks =>
        /\ ~hookState.isLoading => InFlight = {}
        /\ (/\ InFlight = {}
            /\ Len(started) >= 2
            /\ started[Len(started)].outcome = "resolved")
                => hookState.data = Some(ResultOf(Len(started)))

----------------------------------------------------------------------------
(* Claims about the resolver's normalisation and the price calculator *)

\* C26: when parseStorefrontResponse has produced a definition and
\* calculatePriceFromDefinition is run on it with no selection, the result
\* has the original price, the bundle price and the savings stored in
\* definition.pricing; the bundle price is the bundle variant's listed
\* price.
C26_CalculatorAgreesWithResolver ==
    (/\ Returned(resolved) /\ resolved.value # Null
     /\ Returned(price) /\ input = NoInput) =>
        LET pricing == resolved.value[1].pricing IN
        /\ price.value.originalPrice.amount = pricing.originalPrice[1].amount
        /\ price.value.bundlePrice.amount = pricing.bundlePrice[1].amount
        /\ price.value.savings.amount = pricing.savings[1].amount

----------------------------------------------------------------------------
(* Claims about the availability flag of the inventory check *)

\* C27: in every BundleInventory the direct storefront path returns,
\* available is true exactly when maxQuantity is at least 1.
C27_AvailableIffMaxQuantityPositive ==
    (Returned(inventory) /\ resPc = "off" /\ invPc = "done") =>
        (inventory.value.available <=> inventory.value.maxQuantity >= 1)

----------------------------------------------------------------------------
(* Claims about how addBundleToCart ends *)

\* C28: a call of addBundleToCart that has ended has returned an
\* AddBundleResult, never thrown; a result that did not succeed carries an
\* error string.
C28_AlwaysReturnsResult ==
    pc \in {"done", "rejected"} =>
        /\ Returned(addResult)
        /\ ~addResult.value.success => addResult.value.error # <<>>

=============================================================================
